---- MODULE Spec2Model ----
(***************************************************************************)
(* Model of the htmx "hold" extension.                                     *)
(*                                                                         *)
(* Two implementations live in the repository and are modelled side by     *)
(* side, each driving one element of the same page and sharing the clock:  *)
(*   - the progress-loop implementation (registerElement: a chain of       *)
(*     requestAnimationFrame callbacks running updateProgress);            *)
(*   - the timeout implementation (src/src/index.ts: one setTimeout per    *)
(*     press).  Its variables carry the prefix "t".                        *)
(*                                                                         *)
(* The browser is modelled by the clock `now`, the set `frames` of pending *)
(* animation-frame callbacks and the set `timers` of pending timeouts.     *)
(* Handles are opaque: a new handle differs from every handle that is      *)
(* still pending or still stored in a variable of the program.             *)
(*                                                                         *)
(* Spec and ProgressSpec start from installed sessions; PageSpec starts    *)
(* from the loading of the two modules and covers registration with the    *)
(* host and the processing of elements; SkewSpec adds a wall clock that    *)
(* can be set back.                                                        *)
(* ParseSpec processes one element for each of a set of trigger            *)
(* declarations, the clock standing still; PairSpec has two elements       *)
(* installed by the same module, each with its own closure.                *)
(* RepeatSpec registers the extensions again and lets any of the           *)
(* callbacks process the elements.                                         *)
(***************************************************************************)
EXTENDS Integers, Sequences, FiniteSets, TLC

\* ---------------------------------------------------------------- bounds
MaxTime == 5
MaxStarts == 2
MaxDelay == 3
MaxDefines == 2
MaxPairTime == 3
Delays == 0..MaxDelay

\* ------------------------------------------------------------- constants
DEFAULT_HOLD_DELAY == 500
START_EVENTS == {"mousedown", "touchstart"}
CANCEL_EVENTS == {"mouseup", "mouseleave", "touchend", "touchcancel"}

Null == -1

Range(q) == {q[i] : i \in DOMAIN q}

VARIABLES
    now,              \* Date.now(), also the time base of setTimeout
    \* progress-loop implementation, closure state of registerElement
    delay, startTime, animationFrameId, holdTriggered, isActive,
    \* the browser's pending animation-frame callbacks (handles)
    frames,
    \* the element: style --hold-progress, dataset.holdProgress, active class
    cssProgress, dataProgress, hasClass,
    \* observation of the progress-loop element
    holdsEmitted,     \* htmx.trigger(elt, "hold") calls so far
    episodeHolds,     \* ... since the most recent accepted start
    startsAccepted,   \* start gestures that passed the isActive check
    lastStart,        \* clock reading at the most recent accepted start
    cancelSeen,       \* a cancel gesture was handled since that start
    \* timeout implementation, closure state of onEvent in src/src/index.ts
    tDelay, holdTimeout,
    timers,           \* the browser's pending timeouts: records [id, due]
    \* observation of the timeout element
    tEpisodeHolds,    \* htmx.trigger(elt, "hold") calls since the last start
    tLastStart,       \* clock reading at the most recent start gesture
    tCancelSeen,      \* a cancel gesture was handled since that start
    \* observation of the page
    \* history of the browser's animation frames
    staleFrames,      \* pending frames requested before the latest cancel
    \* the host and the registration of the two modules
    hostAvailable,    \* window.htmx is there
    hostDefines,      \* ... and its defineExtension is a function
    hostAtLoad,       \* window.htmx was there when the modules loaded
    loadListener,     \* progress loop: the once-listener of htmx:load
    registerCalls,    \* progress loop: runs of registerHoldExtension
    defineCalls,      \* progress loop: htmx.defineExtension calls
    tLoadListener,    \* index.ts: the listener of htmx:load
    tDefineCalls,     \* index.ts: htmx.defineExtension calls
    \* installation on the two elements
    pAttrs,           \* progress-loop element: hx-trigger, data-hx-trigger
    processed,        \* processedElements.has(elt)
    sessions,         \* registerElement bodies run: listener sets attached
    tAttrs,           \* timeout element: hx-trigger, data-hx-trigger
    tHoldSetup,       \* elt._holdSetup
    tSessions,        \* listener sets attached by index.ts
    \* observation of the page
    lastTarget,       \* the element whose handler ran last
    lastEvent,        \* the event that handler served
    lastCancelable,   \* event.cancelable of a start gesture, else FALSE
    calls,            \* host and DOM calls made by that handler, in order
    \* a page with two elements installed by one of the two modules
    impl,             \* the module: "progress", "timeout", or "none"
    closure,          \* per element, the variables of registerElement
    outputs,          \* per element, its progress outputs and class
    pairFrames,       \* pending animation frames of the two elements
    tClosure,         \* per element, the variables of index.ts onEvent
    pairTimers,       \* pending timeouts of the two elements
    lastElt,          \* the element whose handler ran last
    holdOn,           \* the element 'hold' was triggered on in that handler
    \* the extension callbacks htmx.defineExtension was given, numbered
    \* from 1 in the order of the calls
    callback,         \* the callback that ran last, 0: none has run
    installedBy,      \* the callback that installed the progress-loop
                      \* element, 0: not installed
    tInstalledBy      \* the callback that installed the timeout element

pvars == <<delay, startTime, animationFrameId, holdTriggered, isActive,
           frames, cssProgress, dataProgress, hasClass, holdsEmitted,
           episodeHolds, startsAccepted, lastStart, cancelSeen,
           staleFrames>>
tvars == <<tDelay, holdTimeout, timers, tEpisodeHolds, tLastStart,
           tCancelSeen>>
hvars == <<hostAvailable, hostDefines, hostAtLoad>>
pinst == <<loadListener, registerCalls, defineCalls, pAttrs, processed,
           sessions>>
tinst == <<tLoadListener, tDefineCalls, tAttrs, tHoldSetup, tSessions>>
mvars == <<impl, closure, outputs, pairFrames, tClosure, pairTimers,
           lastElt, holdOn>>
cvars == <<callback, installedBy, tInstalledBy>>
ivars == <<hvars, pinst, tinst, mvars, cvars>>
obs == <<lastTarget, lastEvent, lastCancelable, calls>>
vars == <<now, pvars, tvars, ivars, obs>>

\* ------------------------------------------------- numbers written out
\* A progress value is the number the written string denotes: a reduced
\* fraction, or NaN / -Infinity (division by a zero delay).
RECURSIVE GCD(_, _)
GCD(a, b) == IF b = 0 THEN a ELSE GCD(b, a % b)

Abs(x) == IF x < 0 THEN -x ELSE x

Unset == [k |-> "unset", n |-> 0, d |-> 0]
NaN == [k |-> "NaN", n |-> 0, d |-> 0]
NegInf == [k |-> "-Infinity", n |-> 0, d |-> 0]
Frac(a, b) ==
    LET g == GCD(Abs(a), b) IN [k |-> "num", n |-> a \div g, d |-> b \div g]
Zero == Frac(0, 1)
One == Frac(1, 1)

\* Progress as it would be without Math.min
Progress_unclamped(elapsed, dl) ==
    IF dl = 0
    THEN IF elapsed = 0 THEN NaN
         ELSE IF elapsed > 0 THEN One ELSE NegInf
    ELSE Frac(elapsed, dl)

\* Math.min(elapsed / delay, 1)
Progress(elapsed, dl) ==
    IF dl = 0
    THEN IF elapsed = 0 THEN NaN
         ELSE IF elapsed > 0 THEN One ELSE NegInf
    ELSE IF elapsed >= dl THEN One ELSE Frac(elapsed, dl)

\* AtLeastOne as it would be with `progress > 1`
AtLeastOne_strict(p) == p.k = "num" /\ p.n > p.d

\* progress >= 1
AtLeastOne(p) == p.k = "num" /\ p.n >= p.d

\* Percent as it would be with Math.floor
Percent_floor(p) ==
    IF p.k = "num" THEN Frac((100 * p.n) \div p.d, 1) ELSE p

\* Math.round(progress * 100): half rounds up
Percent(p) ==
    IF p.k = "num" THEN Frac((200 * p.n + p.d) \div (2 * p.d), 1) ELSE p

\* ------------------------------------------------- trigger declarations
\* A declaration is the sequence of its characters; NoAttr is getAttribute's
\* null for an attribute the element does not carry.
NoAttr == <<"null">>
Undefined == [k |-> "undefined", n |-> 0, d |-> 0]

DigitChars == <<"0", "1", "2", "3", "4", "5", "6", "7", "8", "9">>
Digits == Range(DigitChars)
Letters ==
    {"a", "b", "c", "d", "e", "f", "g", "h", "i", "j", "k", "l", "m",
     "n", "o", "p", "q", "r", "s", "t", "u", "v", "w", "x", "y", "z",
     "A", "B", "C", "D", "E", "F", "G", "H", "I", "J", "K", "L", "M",
     "N", "O", "P", "Q", "R", "S", "T", "U", "V", "W", "X", "Y", "Z"}
\* \w and \s of the regular expressions
WordChars == Letters \cup Digits \cup {"_"}
SpaceChars == {" ", "\t", "\n"}

HOLD == <<"h", "o", "l", "d">>
DELAY_COLON == <<"d", "e", "l", "a", "y", ":">>

\* text occurs in s at position i
At(s, i, text) ==
    /\ i >= 1
    /\ i + Len(text) - 1 <= Len(s)
    /\ \A j \in 1..Len(text) : s[i + j - 1] = text[j]

\* the length of the longest run of characters of `set` in s from position i
RECURSIVE RunLen(_, _, _)
RunLen(s, i, set) ==
    IF i <= Len(s) /\ s[i] \in set THEN 1 + RunLen(s, i + 1, set) ELSE 0

\* \b between the characters at positions i - 1 and i
WordBoundary(s, i) ==
    LET before == i - 1 >= 1 /\ i - 1 <= Len(s) /\ s[i - 1] \in WordChars
        after == i >= 1 /\ i <= Len(s) /\ s[i] \in WordChars
    IN before # after

\* HOLD_TRIGGER_PATTERN as it would be without the word boundaries
HOLD_TRIGGER_PATTERN_noBoundary(s) ==
    \E i \in 1..Len(s) : At(s, i, HOLD)

\* HOLD_TRIGGER_PATTERN.test(triggerSpec), the pattern being /\bhold\b/
HOLD_TRIGGER_PATTERN(s) ==
    \E i \in 1..Len(s) :
        /\ At(s, i, HOLD)
        /\ WordBoundary(s, i)
        /\ WordBoundary(s, i + 4)

\* triggerSpec.includes("hold")
IncludesHold(s) == \E i \in 1..Len(s) : At(s, i, HOLD)

\* the value of a run of digits, and 10 to the power k
RECURSIVE DigitsValue(_)
DigitsValue(t) ==
    IF t = <<>> THEN 0
    ELSE LET c == t[Len(t)]
             v == CHOOSE k \in 0..9 : DigitChars[k + 1] = c
         IN 10 * DigitsValue(SubSeq(t, 1, Len(t) - 1)) + v

RECURSIVE Pow10(_)
Pow10(k) == IF k = 0 THEN 1 ELSE 10 * Pow10(k - 1)

\* the end of `hold\s+delay:` matched at position i, or 0
DelayPrefixEnd(s, i) ==
    IF ~At(s, i, HOLD) THEN 0
    ELSE LET sp == RunLen(s, i + 4, SpaceChars)
         IN IF sp >= 1 /\ At(s, i + 4 + sp, DELAY_COLON)
            THEN i + 4 + sp + 6
            ELSE 0

\* the leftmost position where `hold\s+delay:\d` matches, or 0
DelayMatchStart(s) ==
    LET ok(i) == /\ DelayPrefixEnd(s, i) # 0
                 /\ RunLen(s, DelayPrefixEnd(s, i), Digits) >= 1
    IN IF \E i \in 1..Len(s) : ok(i)
       THEN CHOOSE i \in 1..Len(s) : ok(i) /\ \A j \in 1..(i - 1) : ~ok(j)
       ELSE 0

\* match[1] of /hold\s+delay:(\d+(?:\.\d+)?(?:ms|s)?)/, or NoAttr
DelayCapture(s) ==
    LET i == DelayMatchStart(s)
    IN IF i = 0 THEN NoAttr
       ELSE LET b == DelayPrefixEnd(s, i)
                int == RunLen(s, b, Digits)
                frac == IF At(s, b + int, <<".">>)
                        THEN RunLen(s, b + int + 1, Digits) ELSE 0
                e == IF frac >= 1 THEN b + int + 1 + frac ELSE b + int
                unit == IF At(s, e, <<"m", "s">>) THEN 2
                        ELSE IF At(s, e, <<"s">>) THEN 1 ELSE 0
            IN SubSeq(s, b, e + unit - 1)

\* parseInterval as it would be if it read seconds as milliseconds
parseInterval_noSeconds(v) ==
    LET int == RunLen(v, 1, Digits)
        frac == IF At(v, int + 1, <<".">>)
                THEN RunLen(v, int + 2, Digits) ELSE 0
        e == IF frac >= 1 THEN int + 1 + frac ELSE int
        unit == SubSeq(v, e + 1, Len(v))
        num == DigitsValue(SubSeq(v, 1, int)) * Pow10(frac)
               + DigitsValue(SubSeq(v, int + 2, int + 1 + frac))
    IN IF int = 0 \/ unit \notin {<<>>, <<"m", "s">>, <<"s">>}
       THEN Undefined
       ELSE Frac(num, Pow10(frac))

\* the host's parseInterval, as test suites of the repository provide it:
\* /^(\d+(?:\.\d+)?)(ms|s)?$/, parseFloat, seconds times 1000
parseInterval(v) ==
    LET int == RunLen(v, 1, Digits)
        frac == IF At(v, int + 1, <<".">>)
                THEN RunLen(v, int + 2, Digits) ELSE 0
        e == IF frac >= 1 THEN int + 1 + frac ELSE int
        unit == SubSeq(v, e + 1, Len(v))
        num == DigitsValue(SubSeq(v, 1, int)) * Pow10(frac)
               + DigitsValue(SubSeq(v, int + 2, int + 1 + frac))
    IN IF int = 0 \/ unit \notin {<<>>, <<"m", "s">>, <<"s">>}
       THEN Undefined
       ELSE IF unit = <<"s">>
       THEN Frac(num * 1000, Pow10(frac))
       ELSE Frac(num, Pow10(frac))

\* parseDelay(triggerSpec, htmx): a number of milliseconds, or Undefined
\* for its null
parseDelay(s) ==
    IF DelayCapture(s) = NoAttr THEN Undefined
    ELSE parseInterval(DelayCapture(s))

\* index.ts: /hold\s+delay:(\d+)ms/ and parseInt, the default being 500
TimeoutDelay(s) ==
    LET ok(i) == /\ DelayPrefixEnd(s, i) # 0
                 /\ \E k \in 1..Len(s) :
                       /\ k <= RunLen(s, DelayPrefixEnd(s, i), Digits)
                       /\ At(s, DelayPrefixEnd(s, i) + k, <<"m", "s">>)
    IN IF \E i \in 1..Len(s) : ok(i)
       THEN LET i == CHOOSE i \in 1..Len(s) :
                         ok(i) /\ \A j \in 1..(i - 1) : ~ok(j)
                b == DelayPrefixEnd(s, i)
            IN DigitsValue(SubSeq(s, b, b + RunLen(s, b, Digits) - 1))
       ELSE DEFAULT_HOLD_DELAY

\* the decimal digits of n
RECURSIVE NatDigits(_)
NatDigits(n) ==
    IF n < 10 THEN <<DigitChars[n + 1]>>
    ELSE NatDigits(n \div 10) \o <<DigitChars[(n % 10) + 1]>>

\* the elements of the page: hx-trigger="hold delay:<n>ms" for the delays of
\* the model
CLICK == <<"c", "l", "i", "c", "k">>
HoldDeclaration(n) ==
    HOLD \o <<" ">> \o DELAY_COLON \o NatDigits(n) \o <<"m", "s">>
HoldElements == {[hx |-> HoldDeclaration(n), data |-> NoAttr] : n \in Delays}
\* the elements a freshly loaded page may carry: one with the longest hold
\* of the model and one without a hold trigger
PageElements ==
    {[hx |-> HoldDeclaration(MaxDelay), data |-> NoAttr],
     [hx |-> CLICK, data |-> NoAttr]}

\* Declarations put together from parts: other triggers before the hold
\* token, the blanks between `hold` and `delay:`, a number (its text with
\* its value n / d), a unit, and what follows the delay.
Numbers ==
    {[text |-> <<"0">>, n |-> 0, d |-> 1],
     [text |-> <<"2">>, n |-> 2, d |-> 1],
     [text |-> <<"3">>, n |-> 3, d |-> 1],
     [text |-> <<"1", "0", "0", "0">>, n |-> 1000, d |-> 1],
     [text |-> <<"0", ".", "2">>, n |-> 2, d |-> 10],
     [text |-> <<"1", ".", "5">>, n |-> 15, d |-> 10],
     [text |-> <<"2", ".", "0">>, n |-> 20, d |-> 10],
     [text |-> <<"0", ".", "0">>, n |-> 0, d |-> 10],
     [text |-> <<"0", ".", "0", "0", "2">>, n |-> 2, d |-> 1000]}
MS == <<"m", "s">>
SECONDS == <<"s">>
Units == {<<>>, MS, SECONDS}
UnknownUnits == {<<"m">>, <<"m", "i", "n">>, <<"h">>, <<"s", "e", "c">>}
Prefixes == {<<>>, CLICK \o <<",", " ">>}
Gaps == {<<" ">>, <<" ", " ">>}
Suffixes == {<<>>, <<" ", "c", "h", "a", "n", "g", "e", "d">>,
             <<",", " ">> \o CLICK}
DelayForms ==
    [prefix : Prefixes, gap : Gaps, number : Numbers,
     unit : Units \cup UnknownUnits, suffix : Suffixes]
Build(c) ==
    c.prefix \o HOLD \o c.gap \o DELAY_COLON \o c.number.text \o c.unit
             \o c.suffix
\* the declared duration in milliseconds, as a fraction
Declared(c) ==
    Frac(c.number.n * (IF c.unit = SECONDS THEN 1000 ELSE 1), c.number.d)

\* the forms with a unit the parser knows and with another unit; the model
\* keeps a session's delay in whole milliseconds
KnownForms == {c \in DelayForms : c.unit \in Units /\ Declared(c).d = 1}
UnknownUnitForms ==
    {c \in DelayForms : c.unit \in UnknownUnits /\ c.number.d = 1}
\* hold without a delay, and with a delay that is no number
BareHolds == {p \o HOLD \o x : p \in Prefixes, x \in Suffixes}
NonNumericHolds ==
    {HOLD \o <<" ">> \o DELAY_COLON \o x :
        x \in {<<>>, <<"a", "b", "c">>, <<"m", "s">>, <<".", "5", "s">>,
               <<"i", "n", "v", "a", "l", "i", "d", "m", "s">>}}
\* declarations without the lowercase word hold
NotEligible ==
    {CLICK, <<>>, <<"H", "o", "l", "d">> \o Tail(HoldDeclaration(2)),
     <<"t", "h", "r", "e", "s">> \o HoldDeclaration(2),
     HOLD \o <<"_">> \o DELAY_COLON \o <<"2", "m", "s">>}
\* elements carrying one attribute, none, or both
ParseElements ==
    {[hx |-> Build(c), data |-> NoAttr] :
        c \in KnownForms \cup UnknownUnitForms}
    \cup {[hx |-> a, data |-> NoAttr] :
            a \in BareHolds \cup NonNumericHolds \cup NotEligible}
    \cup {[hx |-> a, data |-> b] :
            a \in {NoAttr, <<>>, CLICK, HOLD, HoldDeclaration(2)},
            b \in {NoAttr, CLICK, HOLD, HoldDeclaration(3)}}
\* what a script may later write into hx-trigger (NoAttr: it removes it)
Rewrites == {NoAttr, CLICK, HoldDeclaration(1)}

PROCESS_NODE == "htmx:afterProcessNode"
EVENT_NAMES == {PROCESS_NODE, "htmx:beforeRequest"}
Listeners == [i \in 1..6 |-> "addEventListener"]

\* parseDelay(triggerSpec, htmx) ?? DEFAULT_HOLD_DELAY
InstalledDelay(triggerSpec) ==
    IF parseDelay(triggerSpec) = Undefined
    THEN Frac(DEFAULT_HOLD_DELAY, 1)
    ELSE parseDelay(triggerSpec)

\* ------------------------------------------------------------ scheduler
\* requestAnimationFrame / setTimeout: a handle not in use
FreshHandle(used) ==
    CHOOSE i \in 1..(Cardinality(used) + 1) : i \notin used

\* ----------------------------------------- progress-loop implementation
\* clearAnimation as it would be if it dropped the handle without
\* cancelAnimationFrame
clearAnimation_noCancel(fr) ==
    /\ frames' = fr
    /\ animationFrameId' = Null

\* clearAnimation as it would be if it kept the cancelled handle
clearAnimation_keepsHandle(fr) ==
    /\ frames' = fr \ {animationFrameId}
    /\ UNCHANGED animationFrameId

clearAnimation(fr) ==
    IF animationFrameId # Null
    THEN /\ frames' = fr \ {animationFrameId}
         /\ animationFrameId' = Null
    ELSE /\ frames' = fr
         /\ UNCHANGED animationFrameId

\* onComplete as it would be without the completion flag and the loop stop
onComplete_keepsTicking(fr) ==
    LET id == FreshHandle(fr \cup {animationFrameId})
    IN /\ animationFrameId' = id
       /\ frames' = fr \cup {id}
       /\ holdsEmitted' = holdsEmitted + 1
       /\ episodeHolds' = episodeHolds + 1
       /\ calls' = <<"setProperty", "dataset", "trigger",
                     "requestAnimationFrame">>
       /\ UNCHANGED <<holdTriggered, hasClass>>

\* onComplete as it would be if completion also removed the active class
onComplete_removesClass(fr) ==
    /\ holdTriggered' = TRUE
    /\ clearAnimation(fr)
    /\ holdsEmitted' = holdsEmitted + 1
    /\ episodeHolds' = episodeHolds + 1
    /\ hasClass' = FALSE
    /\ calls' = <<"setProperty", "dataset">>
           \o (IF animationFrameId # Null
               THEN <<"cancelAnimationFrame">> ELSE <<>>)
           \o <<"trigger", "removeClass">>

\* onComplete as it would be without the call of clearAnimation
onComplete_noClear(fr) ==
    /\ holdTriggered' = TRUE
    /\ frames' = fr
    /\ holdsEmitted' = holdsEmitted + 1
    /\ episodeHolds' = episodeHolds + 1
    /\ calls' = <<"setProperty", "dataset", "trigger">>
    /\ UNCHANGED <<animationFrameId, hasClass>>

\* updateProgress, branch `progress >= 1 && !holdTriggered`
onComplete(fr) ==
    /\ holdTriggered' = TRUE
    /\ clearAnimation(fr)
    /\ holdsEmitted' = holdsEmitted + 1
    /\ episodeHolds' = episodeHolds + 1
    /\ calls' = <<"setProperty", "dataset">>
           \o (IF animationFrameId # Null
               THEN <<"cancelAnimationFrame">> ELSE <<>>)
           \o <<"trigger">>
    /\ UNCHANGED hasClass

\* scheduleNext as it would be if the tick requested no further frame
scheduleNext_stops(fr) ==
    /\ frames' = fr
    /\ calls' = <<"setProperty", "dataset">>
    /\ UNCHANGED <<animationFrameId, holdTriggered, holdsEmitted,
                   episodeHolds, hasClass>>

\* updateProgress, branch `else if (!holdTriggered)`
scheduleNext(fr) ==
    LET id == FreshHandle(fr \cup {animationFrameId})
    IN /\ animationFrameId' = id
       /\ frames' = fr \cup {id}
       /\ calls' = <<"setProperty", "dataset", "requestAnimationFrame">>
       /\ UNCHANGED <<holdTriggered, holdsEmitted, episodeHolds, hasClass>>

\* updateProgress, run by the browser with `fr` the callbacks still pending
updateProgress(fr) ==
    IF startTime = Null
    THEN /\ frames' = fr
         /\ calls' = <<>>
         /\ UNCHANGED <<animationFrameId, holdTriggered, cssProgress,
                        dataProgress, holdsEmitted, episodeHolds, hasClass>>
    ELSE LET elapsed == now - startTime
             progress == Progress(elapsed, delay)
         IN /\ cssProgress' = progress
            /\ dataProgress' = Percent(progress)
            /\ IF AtLeastOne(progress) /\ ~holdTriggered
               THEN onComplete(fr)
               ELSE IF ~holdTriggered
               THEN scheduleNext(fr)
               ELSE /\ frames' = fr
                    /\ calls' = <<"setProperty", "dataset">>
                    /\ UNCHANGED <<animationFrameId, holdTriggered,
                                   holdsEmitted, episodeHolds, hasClass>>

\* the browser runs one pending animation-frame callback
Tick(id) ==
    /\ id \in frames
    /\ lastTarget' = "progress"
    /\ lastEvent' = "frame"
    /\ lastCancelable' = FALSE
    /\ updateProgress(frames \ {id})
    /\ staleFrames' = staleFrames \ {id}
    /\ UNCHANGED <<now, delay, startTime, isActive, startsAccepted,
                   lastStart, cancelSeen>>
    /\ UNCHANGED <<tvars, ivars>>

\* StartListener as it would be without the `if (isActive) return` guard
StartListener_noGuard(eventName, cancelable) ==
    /\ eventName \in START_EVENTS
    /\ lastTarget' = "progress"
    /\ lastEvent' = eventName
    /\ lastCancelable' = cancelable
    /\ startsAccepted < MaxStarts
    /\ isActive' = TRUE
    /\ holdTriggered' = FALSE
    /\ startTime' = now
    /\ hasClass' = TRUE
    /\ cssProgress' = Zero
    /\ dataProgress' = Zero
    /\ LET id == FreshHandle(frames \cup {animationFrameId})
       IN /\ animationFrameId' = id
          /\ frames' = frames \cup {id}
    /\ calls' = (IF cancelable THEN <<"preventDefault">> ELSE <<>>)
           \o <<"addClass", "setProperty", "dataset",
                "requestAnimationFrame">>
    /\ startsAccepted' = startsAccepted + 1
    /\ episodeHolds' = 0
    /\ lastStart' = now
    /\ cancelSeen' = FALSE
    /\ UNCHANGED <<now, delay, holdsEmitted, staleFrames>>
    /\ UNCHANGED <<tvars, ivars>>

\* StartListener as it would be with an unconditional preventDefault
StartListener_alwaysPrevents(eventName, cancelable) ==
    /\ eventName \in START_EVENTS
    /\ lastTarget' = "progress"
    /\ lastEvent' = eventName
    /\ lastCancelable' = cancelable
    /\ IF isActive
       THEN /\ calls' = <<>>
            /\ UNCHANGED <<startTime, animationFrameId, holdTriggered,
                           isActive, frames, cssProgress, dataProgress,
                           hasClass, episodeHolds, startsAccepted,
                           lastStart, cancelSeen>>
       ELSE /\ startsAccepted < MaxStarts
            /\ isActive' = TRUE
            /\ holdTriggered' = FALSE
            /\ startTime' = now
            /\ hasClass' = TRUE
            /\ cssProgress' = Zero
            /\ dataProgress' = Zero
            /\ LET id == FreshHandle(frames \cup {animationFrameId})
               IN /\ animationFrameId' = id
                  /\ frames' = frames \cup {id}
            /\ calls' = <<"preventDefault", "addClass", "setProperty",
                          "dataset", "requestAnimationFrame">>
            /\ startsAccepted' = startsAccepted + 1
            /\ episodeHolds' = 0
            /\ lastStart' = now
            /\ cancelSeen' = FALSE
    /\ UNCHANGED <<now, delay, holdsEmitted, staleFrames>>
    /\ UNCHANGED <<tvars, ivars>>

\* listener of mousedown / touchstart
StartListener(eventName, cancelable) ==
    /\ eventName \in START_EVENTS
    /\ lastTarget' = "progress"
    /\ lastEvent' = eventName
    /\ lastCancelable' = cancelable
    /\ IF isActive
       THEN /\ calls' = <<>>
            /\ UNCHANGED <<startTime, animationFrameId, holdTriggered,
                           isActive, frames, cssProgress, dataProgress,
                           hasClass, episodeHolds, startsAccepted,
                           lastStart, cancelSeen>>
       ELSE /\ startsAccepted < MaxStarts
            /\ isActive' = TRUE
            /\ holdTriggered' = FALSE
            /\ startTime' = now
            /\ hasClass' = TRUE
            /\ cssProgress' = Zero
            /\ dataProgress' = Zero
            /\ LET id == FreshHandle(frames \cup {animationFrameId})
               IN /\ animationFrameId' = id
                  /\ frames' = frames \cup {id}
            /\ calls' = (IF cancelable THEN <<"preventDefault">> ELSE <<>>)
                   \o <<"addClass", "setProperty", "dataset",
                        "requestAnimationFrame">>
            /\ startsAccepted' = startsAccepted + 1
            /\ episodeHolds' = 0
            /\ lastStart' = now
            /\ cancelSeen' = FALSE
    /\ UNCHANGED <<now, delay, holdsEmitted, staleFrames>>
    /\ UNCHANGED <<tvars, ivars>>

\* CancelListener as it would be without `isActive = false`
CancelListener_staysActive(eventName) ==
    /\ eventName \in CANCEL_EVENTS
    /\ lastTarget' = "progress"
    /\ lastEvent' = eventName
    /\ lastCancelable' = FALSE
    /\ cancelSeen' = TRUE
    /\ IF ~isActive
       THEN /\ calls' = <<>>
            /\ UNCHANGED <<startTime, animationFrameId, holdTriggered,
                           frames, cssProgress, dataProgress, hasClass>>
       ELSE /\ startTime' = Null
            /\ holdTriggered' = FALSE
            /\ clearAnimation(frames)
            /\ hasClass' = FALSE
            /\ cssProgress' = Zero
            /\ dataProgress' = Zero
            /\ calls' = (IF animationFrameId # Null
                         THEN <<"cancelAnimationFrame">> ELSE <<>>)
                   \o <<"removeClass", "setProperty", "dataset">>
    /\ staleFrames' = frames'
    /\ UNCHANGED <<now, delay, isActive, holdsEmitted, episodeHolds,
                   startsAccepted, lastStart>>
    /\ UNCHANGED <<tvars, ivars>>

\* CancelListener as it would be without the `if (!isActive) return` guard
CancelListener_noGuard(eventName) ==
    /\ eventName \in CANCEL_EVENTS
    /\ lastTarget' = "progress"
    /\ lastEvent' = eventName
    /\ lastCancelable' = FALSE
    /\ cancelSeen' = TRUE
    /\ isActive' = FALSE
    /\ startTime' = Null
    /\ holdTriggered' = FALSE
    /\ clearAnimation(frames)
    /\ hasClass' = FALSE
    /\ cssProgress' = Zero
    /\ dataProgress' = Zero
    /\ calls' = (IF animationFrameId # Null
                 THEN <<"cancelAnimationFrame">> ELSE <<>>)
           \o <<"removeClass", "setProperty", "dataset">>
    /\ staleFrames' = frames'
    /\ UNCHANGED <<now, delay, holdsEmitted, episodeHolds, startsAccepted,
                   lastStart>>
    /\ UNCHANGED <<tvars, ivars>>

\* CancelListener as it would be without `startTime = null`
CancelListener_keepsStartTime(eventName) ==
    /\ eventName \in CANCEL_EVENTS
    /\ lastTarget' = "progress"
    /\ lastEvent' = eventName
    /\ lastCancelable' = FALSE
    /\ cancelSeen' = TRUE
    /\ IF ~isActive
       THEN /\ calls' = <<>>
            /\ UNCHANGED <<startTime, animationFrameId, holdTriggered,
                           isActive, frames, cssProgress, dataProgress,
                           hasClass>>
       ELSE /\ isActive' = FALSE
            /\ UNCHANGED startTime
            /\ holdTriggered' = FALSE
            /\ clearAnimation(frames)
            /\ hasClass' = FALSE
            /\ cssProgress' = Zero
            /\ dataProgress' = Zero
            /\ calls' = (IF animationFrameId # Null
                         THEN <<"cancelAnimationFrame">> ELSE <<>>)
                   \o <<"removeClass", "setProperty", "dataset">>
    /\ staleFrames' = frames'
    /\ UNCHANGED <<now, delay, holdsEmitted, episodeHolds, startsAccepted,
                   lastStart>>
    /\ UNCHANGED <<tvars, ivars>>

\* CancelListener as it would be without the removeClass call
CancelListener_keepsClass(eventName) ==
    /\ eventName \in CANCEL_EVENTS
    /\ lastTarget' = "progress"
    /\ lastEvent' = eventName
    /\ lastCancelable' = FALSE
    /\ cancelSeen' = TRUE
    /\ IF ~isActive
       THEN /\ calls' = <<>>
            /\ UNCHANGED <<startTime, animationFrameId, holdTriggered,
                           isActive, frames, cssProgress, dataProgress,
                           hasClass>>
       ELSE /\ isActive' = FALSE
            /\ startTime' = Null
            /\ holdTriggered' = FALSE
            /\ clearAnimation(frames)
            /\ UNCHANGED hasClass
            /\ cssProgress' = Zero
            /\ dataProgress' = Zero
            /\ calls' = (IF animationFrameId # Null
                         THEN <<"cancelAnimationFrame">> ELSE <<>>)
                   \o <<"setProperty", "dataset">>
    /\ staleFrames' = frames'
    /\ UNCHANGED <<now, delay, holdsEmitted, episodeHolds, startsAccepted,
                   lastStart>>
    /\ UNCHANGED <<tvars, ivars>>

\* listener of mouseup / mouseleave / touchend / touchcancel
CancelListener(eventName) ==
    /\ eventName \in CANCEL_EVENTS
    /\ lastTarget' = "progress"
    /\ lastEvent' = eventName
    /\ lastCancelable' = FALSE
    /\ cancelSeen' = TRUE
    /\ IF ~isActive
       THEN /\ calls' = <<>>
            /\ UNCHANGED <<startTime, animationFrameId, holdTriggered,
                           isActive, frames, cssProgress, dataProgress,
                           hasClass>>
       ELSE /\ isActive' = FALSE
            /\ startTime' = Null
            /\ holdTriggered' = FALSE
            /\ clearAnimation(frames)
            /\ hasClass' = FALSE
            /\ cssProgress' = Zero
            /\ dataProgress' = Zero
            /\ calls' = (IF animationFrameId # Null
                         THEN <<"cancelAnimationFrame">> ELSE <<>>)
                   \o <<"removeClass", "setProperty", "dataset">>
    /\ staleFrames' = frames'
    /\ UNCHANGED <<now, delay, holdsEmitted, episodeHolds, startsAccepted,
                   lastStart>>
    /\ UNCHANGED <<tvars, ivars>>

\* ----------------------------------- timeout implementation (index.ts)
\* clearTimeout(holdTimeout)
clearTimeout(h) == {t \in timers : t.id # h}

\* startHold as it would be without clearing the timeout of an earlier press
startHold_stacksTimers(eventName) ==
    /\ eventName \in START_EVENTS
    /\ lastTarget' = "timeout"
    /\ lastEvent' = eventName
    /\ lastCancelable' = FALSE
    /\ LET id == FreshHandle({t.id : t \in timers} \cup {holdTimeout})
       IN /\ timers' = timers \cup {[id |-> id, due |-> now + tDelay]}
          /\ holdTimeout' = id
    /\ calls' = <<"preventDefault", "setTimeout">>
    /\ tEpisodeHolds' = 0
    /\ tLastStart' = now
    /\ tCancelSeen' = FALSE
    /\ UNCHANGED <<now, tDelay>>
    /\ UNCHANGED <<pvars, ivars>>

\* startHold, listener of mousedown / touchstart
startHold(eventName) ==
    /\ eventName \in START_EVENTS
    /\ lastTarget' = "timeout"
    /\ lastEvent' = eventName
    /\ lastCancelable' = FALSE
    /\ LET cleared == IF holdTimeout # Null
                      THEN clearTimeout(holdTimeout) ELSE timers
           id == FreshHandle({t.id : t \in cleared} \cup {holdTimeout})
       IN /\ timers' = cleared \cup {[id |-> id, due |-> now + tDelay]}
          /\ holdTimeout' = id
    /\ calls' = <<"preventDefault">>
           \o (IF holdTimeout # Null THEN <<"clearTimeout">> ELSE <<>>)
           \o <<"setTimeout">>
    /\ tEpisodeHolds' = 0
    /\ tLastStart' = now
    /\ tCancelSeen' = FALSE
    /\ UNCHANGED <<now, tDelay>>
    /\ UNCHANGED <<pvars, ivars>>

\* TimeoutFires as it would be without `holdTimeout = null`
TimeoutFires_keepsHandle(t) ==
    /\ t \in timers
    /\ t.due <= now
    /\ timers' = timers \ {t}
    /\ lastTarget' = "timeout"
    /\ lastEvent' = "timeout"
    /\ lastCancelable' = FALSE
    /\ tEpisodeHolds' = tEpisodeHolds + 1
    /\ calls' = <<"trigger">>
    /\ UNCHANGED <<now, tDelay, holdTimeout, tLastStart, tCancelSeen>>
    /\ UNCHANGED <<pvars, ivars>>

\* the callback given to setTimeout, run by the browser once it is due
TimeoutFires(t) ==
    /\ t \in timers
    /\ t.due <= now
    /\ timers' = timers \ {t}
    /\ lastTarget' = "timeout"
    /\ lastEvent' = "timeout"
    /\ lastCancelable' = FALSE
    /\ tEpisodeHolds' = tEpisodeHolds + 1
    /\ holdTimeout' = Null
    /\ calls' = <<"trigger">>
    /\ UNCHANGED <<now, tDelay, tLastStart, tCancelSeen>>
    /\ UNCHANGED <<pvars, ivars>>

\* cancelHold as it would be if it dropped the handle without clearTimeout
cancelHold_forgetsTimer(eventName) ==
    /\ eventName \in CANCEL_EVENTS
    /\ lastTarget' = "timeout"
    /\ lastEvent' = eventName
    /\ lastCancelable' = FALSE
    /\ tCancelSeen' = TRUE
    /\ holdTimeout' = Null
    /\ calls' = <<>>
    /\ UNCHANGED <<now, tDelay, timers, tEpisodeHolds, tLastStart>>
    /\ UNCHANGED <<pvars, ivars>>

\* cancelHold, listener of mouseup / mouseleave / touchend / touchcancel
cancelHold(eventName) ==
    /\ eventName \in CANCEL_EVENTS
    /\ lastTarget' = "timeout"
    /\ lastEvent' = eventName
    /\ lastCancelable' = FALSE
    /\ tCancelSeen' = TRUE
    /\ IF holdTimeout # Null
       THEN /\ timers' = clearTimeout(holdTimeout)
            /\ holdTimeout' = Null
            /\ calls' = <<"clearTimeout">>
       ELSE /\ calls' = <<>>
            /\ UNCHANGED <<timers, holdTimeout>>
    /\ UNCHANGED <<now, tDelay, tEpisodeHolds, tLastStart>>
    /\ UNCHANGED <<pvars, ivars>>

\* ------------------------------------------- registration, installation
\* htmx && typeof htmx.defineExtension === "function"
HostUsable == hostAvailable /\ hostDefines

\* what registerHoldExtension of the progress-loop module calls
RegisterCalls ==
    IF HostUsable THEN <<"defineExtension">> ELSE <<"console.error">>

\* what registerHoldExtension of index.ts calls: it tests the host object
\* only, and calling a defineExtension that is no function throws
tRegisterCalls ==
    IF ~hostAvailable THEN <<"console.warn">>
    ELSE IF hostDefines THEN <<"defineExtension">>
    ELSE <<"throw TypeError">>

\* registerHoldExtension of the progress-loop module
registerHoldExtension ==
    /\ registerCalls' = registerCalls + 1
    /\ IF HostUsable
       THEN defineCalls' = defineCalls + 1
       ELSE UNCHANGED defineCalls

\* registerHoldExtension of index.ts
tRegisterHoldExtension ==
    IF HostUsable
    THEN tDefineCalls' = tDefineCalls + 1
    ELSE UNCHANGED tDefineCalls

\* LoadListenerRuns as it would be without {once: true}
LoadListenerRuns_notOnce ==
    IF loadListener
    THEN /\ UNCHANGED loadListener
         /\ registerHoldExtension
    ELSE UNCHANGED <<loadListener, registerCalls, defineCalls>>

\* htmx:load reaches the listener the progress-loop module added with
\* {once: true}
LoadListenerRuns ==
    IF loadListener
    THEN /\ loadListener' = FALSE
         /\ registerHoldExtension
    ELSE UNCHANGED <<loadListener, registerCalls, defineCalls>>

\* htmx:load is dispatched on the document
HtmxLoad ==
    /\ (tLoadListener /\ HostUsable) => tDefineCalls < MaxDefines
    /\ lastTarget' = "document"
    /\ lastEvent' = "htmx:load"
    /\ lastCancelable' = FALSE
    /\ LoadListenerRuns
    /\ IF tLoadListener
       THEN tRegisterHoldExtension
       ELSE UNCHANGED tDefineCalls
    /\ calls' = (IF loadListener THEN RegisterCalls ELSE <<>>)
           \o (IF tLoadListener THEN tRegisterCalls ELSE <<>>)
    /\ UNCHANGED <<now, pvars, tvars, hvars, mvars, cvars, tLoadListener,
                   pAttrs,
                   processed, sessions, tAttrs, tHoldSetup, tSessions>>

\* RegisterAgain as it would be if the registration emptied
\* processedElements
RegisterAgain_freshSet ==
    /\ registerCalls < MaxDefines
    /\ registerHoldExtension
    /\ processed' = FALSE
    /\ lastTarget' = "module"
    /\ lastEvent' = "register"
    /\ lastCancelable' = FALSE
    /\ calls' = RegisterCalls
    /\ UNCHANGED <<now, pvars, tvars, hvars, mvars, cvars, tinst,
                   loadListener, pAttrs, sessions>>

\* a script of the page calls the exported registerHoldExtension of the
\* progress-loop module once more
RegisterAgain ==
    /\ registerCalls < MaxDefines
    /\ registerHoldExtension
    /\ lastTarget' = "module"
    /\ lastEvent' = "register"
    /\ lastCancelable' = FALSE
    /\ calls' = RegisterCalls
    /\ UNCHANGED <<now, pvars, tvars, hvars, mvars, cvars, tinst,
                   loadListener, pAttrs, processed, sessions>>

\* a script of the page calls the exported registerHoldExtension of
\* index.ts once more
tRegisterAgain ==
    /\ tDefineCalls < MaxDefines
    /\ tRegisterHoldExtension
    /\ lastTarget' = "timeout module"
    /\ lastEvent' = "register"
    /\ lastCancelable' = FALSE
    /\ calls' = tRegisterCalls
    /\ UNCHANGED <<now, pvars, tvars, hvars, mvars, cvars, pinst,
                   tLoadListener, tAttrs, tHoldSetup, tSessions>>

\* the host library finishes loading
HostArrives ==
    /\ ~hostAvailable
    /\ hostAvailable' = TRUE
    /\ hostDefines' \in BOOLEAN
    /\ lastTarget' = "browser"
    /\ lastEvent' = "host"
    /\ lastCancelable' = FALSE
    /\ calls' = <<>>
    /\ UNCHANGED <<now, pvars, tvars, hostAtLoad, pinst, tinst, mvars,
                   cvars>>

\* registerElement as it would be without the processedElements check
registerElement_noGuard(triggerSpec) ==
    /\ InstalledDelay(triggerSpec).d = 1
    /\ delay' = InstalledDelay(triggerSpec).n
    /\ startTime' = Null
    /\ animationFrameId' = Null
    /\ holdTriggered' = FALSE
    /\ isActive' = FALSE
    /\ sessions' = sessions + 1
    /\ processed' = TRUE

\* registerElement as it would be if it parsed the delay again for an
\* element that is already in processedElements
registerElement_reparses(triggerSpec) ==
    IF processed
    THEN /\ InstalledDelay(triggerSpec).d = 1
         /\ delay' = InstalledDelay(triggerSpec).n
         /\ UNCHANGED <<startTime, animationFrameId, holdTriggered,
                        isActive, processed, sessions>>
    ELSE /\ InstalledDelay(triggerSpec).d = 1
         /\ delay' = InstalledDelay(triggerSpec).n
         /\ startTime' = Null
         /\ animationFrameId' = Null
         /\ holdTriggered' = FALSE
         /\ isActive' = FALSE
         /\ sessions' = sessions + 1
         /\ processed' = TRUE

\* registerElement(elt, triggerSpec, htmx), up to the listeners
registerElement(triggerSpec) ==
    IF processed
    THEN UNCHANGED <<delay, startTime, animationFrameId, holdTriggered,
                     isActive, processed, sessions>>
    ELSE /\ InstalledDelay(triggerSpec).d = 1
         /\ delay' = InstalledDelay(triggerSpec).n
         /\ startTime' = Null
         /\ animationFrameId' = Null
         /\ holdTriggered' = FALSE
         /\ isActive' = FALSE
         /\ sessions' = sessions + 1
         /\ processed' = TRUE

\* the getAttribute calls of onEvent: data-hx-trigger is read only when
\* hx-trigger gave null
GET_HX == "getAttribute hx-trigger"
GET_DATA == "getAttribute data-hx-trigger"
AttributeReads(name, hasElt) ==
    IF name # PROCESS_NODE \/ ~hasElt THEN <<>>
    ELSE IF pAttrs.hx = NoAttr THEN <<GET_HX, GET_DATA>>
    ELSE <<GET_HX>>

\* onEvent as it would be with a bare `return` for an element that is
\* already in processedElements
onEvent_bareReturn(name, hasElt) ==
    /\ defineCalls >= 1
    /\ lastTarget' = "extension"
    /\ lastEvent' = name
    /\ lastCancelable' = FALSE
    /\ LET triggerSpec == IF pAttrs.hx # NoAttr THEN pAttrs.hx
                          ELSE pAttrs.data
       IN IF \/ name # PROCESS_NODE
             \/ ~hasElt
             \/ triggerSpec = NoAttr
             \/ triggerSpec = <<>>
             \/ ~HOLD_TRIGGER_PATTERN(triggerSpec)
          THEN /\ calls' = AttributeReads(name, hasElt) \o <<"return true">>
               /\ UNCHANGED <<delay, startTime, animationFrameId,
                              holdTriggered, isActive, processed, sessions>>
          ELSE /\ registerElement(triggerSpec)
               /\ calls' = AttributeReads(name, hasElt)
                      \o (IF processed THEN <<"return undefined">>
                          ELSE Listeners \o <<"return true">>)
    /\ UNCHANGED <<now, frames, cssProgress, dataProgress, hasClass,
                   holdsEmitted, episodeHolds, startsAccepted, lastStart,
                   cancelSeen, staleFrames>>
    /\ callback' \in 1..defineCalls
    /\ installedBy' = (IF sessions' > sessions THEN callback'
                       ELSE installedBy)
    /\ UNCHANGED <<tvars, hvars, mvars, tinst, loadListener,
                   registerCalls, defineCalls, pAttrs, tInstalledBy>>

\* onEvent as it would be with `||` between the two getAttribute calls
onEvent_orFallback(name, hasElt) ==
    /\ defineCalls >= 1
    /\ lastTarget' = "extension"
    /\ lastEvent' = name
    /\ lastCancelable' = FALSE
    /\ LET triggerSpec == IF pAttrs.hx \notin {NoAttr, <<>>} THEN pAttrs.hx
                          ELSE pAttrs.data
       IN IF \/ name # PROCESS_NODE
             \/ ~hasElt
             \/ triggerSpec = NoAttr
             \/ triggerSpec = <<>>
             \/ ~HOLD_TRIGGER_PATTERN(triggerSpec)
          THEN /\ calls' = AttributeReads(name, hasElt) \o <<"return true">>
               /\ UNCHANGED <<delay, startTime, animationFrameId,
                              holdTriggered, isActive, processed, sessions>>
          ELSE /\ registerElement(triggerSpec)
               /\ calls' = AttributeReads(name, hasElt)
                      \o (IF processed THEN <<>> ELSE Listeners)
                      \o <<"return true">>
    /\ UNCHANGED <<now, frames, cssProgress, dataProgress, hasClass,
                   holdsEmitted, episodeHolds, startsAccepted, lastStart,
                   cancelSeen, staleFrames>>
    /\ callback' \in 1..defineCalls
    /\ installedBy' = (IF sessions' > sessions THEN callback'
                       ELSE installedBy)
    /\ UNCHANGED <<tvars, hvars, mvars, tinst, loadListener,
                   registerCalls, defineCalls, pAttrs, tInstalledBy>>

\* onEvent of the progress-loop extension; hasElt: evt.detail.elt is the
\* progress-loop element, and not undefined
onEvent(name, hasElt) ==
    /\ defineCalls >= 1
    /\ lastTarget' = "extension"
    /\ lastEvent' = name
    /\ lastCancelable' = FALSE
    /\ LET triggerSpec == IF pAttrs.hx # NoAttr THEN pAttrs.hx
                          ELSE pAttrs.data
       IN IF \/ name # PROCESS_NODE
             \/ ~hasElt
             \/ triggerSpec = NoAttr
             \/ triggerSpec = <<>>
             \/ ~HOLD_TRIGGER_PATTERN(triggerSpec)
          THEN /\ calls' = AttributeReads(name, hasElt) \o <<"return true">>
               /\ UNCHANGED <<delay, startTime, animationFrameId,
                              holdTriggered, isActive, processed, sessions>>
          ELSE /\ registerElement(triggerSpec)
               /\ calls' = AttributeReads(name, hasElt)
                      \o (IF processed THEN <<>> ELSE Listeners)
                      \o <<"return true">>
    /\ UNCHANGED <<now, frames, cssProgress, dataProgress, hasClass,
                   holdsEmitted, episodeHolds, startsAccepted, lastStart,
                   cancelSeen, staleFrames>>
    /\ callback' \in 1..defineCalls
    /\ installedBy' = (IF sessions' > sessions THEN callback'
                       ELSE installedBy)
    /\ UNCHANGED <<tvars, hvars, mvars, tinst, loadListener,
                   registerCalls, defineCalls, pAttrs, tInstalledBy>>

\* onEvent of the extension of index.ts, evt.detail.elt being the timeout
\* element
tOnEvent(name) ==
    /\ tDefineCalls >= 1
    /\ lastTarget' = "timeout extension"
    /\ lastEvent' = name
    /\ lastCancelable' = FALSE
    /\ LET triggerSpec == IF tAttrs.hx \notin {NoAttr, <<>>} THEN tAttrs.hx
                          ELSE tAttrs.data
       IN IF /\ name = PROCESS_NODE
             /\ triggerSpec # NoAttr
             /\ IncludesHold(triggerSpec)
          THEN IF tHoldSetup
               THEN /\ calls' = <<"return undefined">>
                    /\ UNCHANGED <<tDelay, holdTimeout, tHoldSetup,
                                   tSessions>>
               ELSE /\ tHoldSetup' = TRUE
                    /\ tDelay' = TimeoutDelay(triggerSpec)
                    /\ holdTimeout' = Null
                    /\ tSessions' = tSessions + 1
                    /\ calls' = Listeners \o <<"return true">>
          ELSE /\ calls' = <<"return true">>
               /\ UNCHANGED <<tDelay, holdTimeout, tHoldSetup, tSessions>>
    /\ UNCHANGED <<now, timers, tEpisodeHolds, tLastStart, tCancelSeen>>
    /\ callback' \in 1..tDefineCalls
    /\ tInstalledBy' = (IF tSessions' > tSessions THEN callback'
                        ELSE tInstalledBy)
    /\ UNCHANGED <<pvars, hvars, mvars, pinst, tLoadListener, tDefineCalls,
                   tAttrs, installedBy>>

\* a press or release reaches an element that carries no listener
GestureWithoutListener(eventName) ==
    /\ eventName \in START_EVENTS \cup CANCEL_EVENTS
    /\ sessions = 0
    /\ lastTarget' = "element"
    /\ lastEvent' = eventName
    /\ lastCancelable' = FALSE
    /\ calls' = <<>>
    /\ UNCHANGED <<now, pvars, tvars, ivars>>

\* a script rewrites or removes hx-trigger of the progress-loop element
SetAttribute(a) ==
    /\ a # pAttrs.hx
    /\ pAttrs' = [pAttrs EXCEPT !.hx = a]
    /\ lastTarget' = "element"
    /\ lastEvent' = "setAttribute"
    /\ lastCancelable' = FALSE
    /\ calls' = <<>>
    /\ UNCHANGED <<now, pvars, tvars, hvars, mvars, cvars, tinst,
                   loadListener, registerCalls, defineCalls, processed,
                   sessions>>

\* ------------------------------------ two elements of one implementation
\* Each call of registerElement (of index.ts onEvent) creates its own
\* variables; the browser's pending callbacks and their handles are shared
\* by the page.
Elements == {1, 2}
PairDelay == [e \in Elements |-> e]

\* cancelAnimationFrame(h) / clearTimeout(h) on the page
Cancelled(pending, h) == {f \in pending : f.id # h}

\* handles the browser must not hand out again: pending or still stored
FrameHandles(pending) ==
    {f.id : f \in pending}
        \cup {closure[e].animationFrameId : e \in Elements}
TimerHandles(pending) ==
    {t.id : t \in pending} \cup {tClosure[e].holdTimeout : e \in Elements}

\* the start listener registerElement attached to element e
StartListenerOf(e, eventName, cancelable) ==
    /\ impl = "progress"
    /\ eventName \in START_EVENTS
    /\ lastTarget' = "pair"
    /\ lastEvent' = eventName
    /\ lastCancelable' = cancelable
    /\ lastElt' = e
    /\ holdOn' = Null
    /\ IF closure[e].isActive
       THEN /\ calls' = <<>>
            /\ UNCHANGED <<closure, outputs, pairFrames>>
       ELSE LET id == FreshHandle(FrameHandles(pairFrames))
            IN /\ closure' = [closure EXCEPT ![e] =
                                 [@ EXCEPT !.isActive = TRUE,
                                           !.holdTriggered = FALSE,
                                           !.startTime = now,
                                           !.animationFrameId = id]]
               /\ outputs' = [outputs EXCEPT ![e] =
                                 [cssProgress |-> Zero,
                                  dataProgress |-> Zero,
                                  hasClass |-> TRUE]]
               /\ pairFrames' = pairFrames \cup {[id |-> id, elt |-> e]}
               /\ calls' = (IF cancelable THEN <<"preventDefault">>
                            ELSE <<>>)
                      \o <<"addClass", "setProperty", "dataset",
                           "requestAnimationFrame">>
    /\ UNCHANGED <<now, impl, tClosure, pairTimers>>
    /\ UNCHANGED <<pvars, tvars, hvars, pinst, tinst, cvars>>

\* CancelListenerOf as it would be if it cancelled every pending frame of
\* the page
CancelListenerOf_cancelsAll(e, eventName) ==
    /\ impl = "progress"
    /\ eventName \in CANCEL_EVENTS
    /\ lastTarget' = "pair"
    /\ lastEvent' = eventName
    /\ lastCancelable' = FALSE
    /\ lastElt' = e
    /\ holdOn' = Null
    /\ IF ~closure[e].isActive
       THEN /\ calls' = <<>>
            /\ UNCHANGED <<closure, outputs, pairFrames>>
       ELSE /\ closure' = [closure EXCEPT ![e] =
                              [@ EXCEPT !.isActive = FALSE,
                                        !.startTime = Null,
                                        !.holdTriggered = FALSE,
                                        !.animationFrameId = Null]]
            /\ pairFrames' = {}
            /\ outputs' = [outputs EXCEPT ![e] =
                              [cssProgress |-> Zero,
                               dataProgress |-> Zero,
                               hasClass |-> FALSE]]
            /\ calls' = <<"cancelAnimationFrame", "removeClass",
                          "setProperty", "dataset">>
    /\ UNCHANGED <<now, impl, tClosure, pairTimers>>
    /\ UNCHANGED <<pvars, tvars, hvars, pinst, tinst, cvars>>

\* the cancel listener registerElement attached to element e
CancelListenerOf(e, eventName) ==
    /\ impl = "progress"
    /\ eventName \in CANCEL_EVENTS
    /\ lastTarget' = "pair"
    /\ lastEvent' = eventName
    /\ lastCancelable' = FALSE
    /\ lastElt' = e
    /\ holdOn' = Null
    /\ IF ~closure[e].isActive
       THEN /\ calls' = <<>>
            /\ UNCHANGED <<closure, outputs, pairFrames>>
       ELSE /\ closure' = [closure EXCEPT ![e] =
                              [@ EXCEPT !.isActive = FALSE,
                                        !.startTime = Null,
                                        !.holdTriggered = FALSE,
                                        !.animationFrameId = Null]]
            /\ pairFrames' =
                  IF closure[e].animationFrameId # Null
                  THEN Cancelled(pairFrames, closure[e].animationFrameId)
                  ELSE pairFrames
            /\ outputs' = [outputs EXCEPT ![e] =
                              [cssProgress |-> Zero,
                               dataProgress |-> Zero,
                               hasClass |-> FALSE]]
            /\ calls' = (IF closure[e].animationFrameId # Null
                         THEN <<"cancelAnimationFrame">> ELSE <<>>)
                   \o <<"removeClass", "setProperty", "dataset">>
    /\ UNCHANGED <<now, impl, tClosure, pairTimers>>
    /\ UNCHANGED <<pvars, tvars, hvars, pinst, tinst, cvars>>

\* the browser runs the pending animation-frame callback f: updateProgress
\* of the element that requested it
TickOf(f) ==
    /\ impl = "progress"
    /\ f \in pairFrames
    /\ lastTarget' = "pair"
    /\ lastEvent' = "frame"
    /\ lastCancelable' = FALSE
    /\ lastElt' = f.elt
    /\ LET e == f.elt
           c == closure[e]
           fr == pairFrames \ {f}
       IN IF c.startTime = Null
          THEN /\ pairFrames' = fr
               /\ holdOn' = Null
               /\ calls' = <<>>
               /\ UNCHANGED <<closure, outputs>>
          ELSE LET progress == Progress(now - c.startTime, c.delay)
               IN /\ outputs' = [outputs EXCEPT ![e] =
                                    [@ EXCEPT
                                       !.cssProgress = progress,
                                       !.dataProgress = Percent(progress)]]
                  /\ IF AtLeastOne(progress) /\ ~c.holdTriggered
                     THEN /\ closure' = [closure EXCEPT ![e] =
                                            [@ EXCEPT
                                               !.holdTriggered = TRUE,
                                               !.animationFrameId = Null]]
                          /\ pairFrames' =
                                IF c.animationFrameId # Null
                                THEN Cancelled(fr, c.animationFrameId)
                                ELSE fr
                          /\ holdOn' = e
                          /\ calls' = <<"setProperty", "dataset",
                                        "cancelAnimationFrame", "trigger">>
                     ELSE IF ~c.holdTriggered
                     THEN LET id == FreshHandle(FrameHandles(fr))
                          IN /\ closure' = [closure EXCEPT
                                              ![e].animationFrameId = id]
                             /\ pairFrames' =
                                   fr \cup {[id |-> id, elt |-> e]}
                             /\ holdOn' = Null
                             /\ calls' = <<"setProperty", "dataset",
                                           "requestAnimationFrame">>
                     ELSE /\ pairFrames' = fr
                          /\ holdOn' = Null
                          /\ calls' = <<"setProperty", "dataset">>
                          /\ UNCHANGED closure
    /\ UNCHANGED <<now, impl, tClosure, pairTimers>>
    /\ UNCHANGED <<pvars, tvars, hvars, pinst, tinst, cvars>>

\* startHold of the closure index.ts created for element e
startHoldOf(e, eventName) ==
    /\ impl = "timeout"
    /\ eventName \in START_EVENTS
    /\ lastTarget' = "pair"
    /\ lastEvent' = eventName
    /\ lastCancelable' = FALSE
    /\ lastElt' = e
    /\ holdOn' = Null
    /\ LET h == tClosure[e].holdTimeout
           cleared == IF h # Null THEN Cancelled(pairTimers, h)
                      ELSE pairTimers
           id == FreshHandle(TimerHandles(cleared))
       IN /\ pairTimers' = cleared \cup {[id |-> id, elt |-> e,
                                          due |-> now + tClosure[e].delay]}
          /\ tClosure' = [tClosure EXCEPT ![e].holdTimeout = id]
          /\ calls' = <<"preventDefault">>
                 \o (IF h # Null THEN <<"clearTimeout">> ELSE <<>>)
                 \o <<"setTimeout">>
    /\ UNCHANGED <<now, impl, closure, outputs, pairFrames>>
    /\ UNCHANGED <<pvars, tvars, hvars, pinst, tinst, cvars>>

\* cancelHold of the closure index.ts created for element e
cancelHoldOf(e, eventName) ==
    /\ impl = "timeout"
    /\ eventName \in CANCEL_EVENTS
    /\ lastTarget' = "pair"
    /\ lastEvent' = eventName
    /\ lastCancelable' = FALSE
    /\ lastElt' = e
    /\ holdOn' = Null
    /\ IF tClosure[e].holdTimeout # Null
       THEN /\ pairTimers' = Cancelled(pairTimers, tClosure[e].holdTimeout)
            /\ tClosure' = [tClosure EXCEPT ![e].holdTimeout = Null]
            /\ calls' = <<"clearTimeout">>
       ELSE /\ calls' = <<>>
            /\ UNCHANGED <<pairTimers, tClosure>>
    /\ UNCHANGED <<now, impl, closure, outputs, pairFrames>>
    /\ UNCHANGED <<pvars, tvars, hvars, pinst, tinst, cvars>>

\* the browser runs the due timeout t: the callback startHold gave to
\* setTimeout for element t.elt
TimeoutFiresOf(t) ==
    /\ impl = "timeout"
    /\ t \in pairTimers
    /\ t.due <= now
    /\ lastTarget' = "pair"
    /\ lastEvent' = "timeout"
    /\ lastCancelable' = FALSE
    /\ lastElt' = t.elt
    /\ holdOn' = t.elt
    /\ pairTimers' = pairTimers \ {t}
    /\ tClosure' = [tClosure EXCEPT ![t.elt].holdTimeout = Null]
    /\ calls' = <<"trigger">>
    /\ UNCHANGED <<now, impl, closure, outputs, pairFrames>>
    /\ UNCHANGED <<pvars, tvars, hvars, pinst, tinst, cvars>>

\* ------------------------------------------------------------- the clock
Advance ==
    /\ now < MaxTime
    /\ now' = now + 1
    /\ lastTarget' = "browser"
    /\ lastEvent' = "clock"
    /\ lastCancelable' = FALSE
    /\ calls' = <<>>
    /\ UNCHANGED <<pvars, tvars, ivars>>

\* Date.now() is the wall clock: the system sets it back
ClockSetBack ==
    /\ now > 0
    /\ \E t \in 0..(now - 1) : now' = t
    /\ lastTarget' = "browser"
    /\ lastEvent' = "clock set back"
    /\ lastCancelable' = FALSE
    /\ calls' = <<>>
    /\ UNCHANGED <<pvars, tvars, ivars>>

\* ------------------------------------------------------------------ Init
\* the closure state and the element before any gesture
InitSession ==
    /\ startTime = Null
    /\ animationFrameId = Null
    /\ holdTriggered = FALSE
    /\ isActive = FALSE
    /\ frames = {}
    /\ cssProgress = Unset
    /\ dataProgress = Unset
    /\ hasClass = FALSE
    /\ holdsEmitted = 0
    /\ episodeHolds = 0
    /\ startsAccepted = 0
    /\ lastStart = Null
    /\ cancelSeen = FALSE
    /\ staleFrames = {}

InitTimeout ==
    /\ holdTimeout = Null
    /\ timers = {}
    /\ tEpisodeHolds = 0
    /\ tLastStart = Null
    /\ tCancelSeen = FALSE

\* a page without the pair of elements
NoPair ==
    /\ impl = "none"
    /\ closure = <<>>
    /\ outputs = <<>>
    /\ pairFrames = {}
    /\ tClosure = <<>>
    /\ pairTimers = {}
    /\ lastElt = Null
    /\ holdOn = Null

\* both modules registered at load and both elements processed once
InitP ==
    /\ InitSession
    /\ loadListener = FALSE
    /\ registerCalls = 1
    /\ defineCalls = 1
    /\ pAttrs \in HoldElements
    /\ processed = TRUE
    /\ sessions = 1
    /\ installedBy = 1
    /\ delay = InstalledDelay(pAttrs.hx).n

InitT ==
    /\ InitTimeout
    /\ tLoadListener = FALSE
    /\ tDefineCalls = 1
    /\ tAttrs \in HoldElements
    /\ tHoldSetup = TRUE
    /\ tSessions = 1
    /\ tInstalledBy = 1
    /\ tDelay = TimeoutDelay(tAttrs.hx)

Init ==
    /\ now = 0
    /\ NoPair
    /\ hostAvailable = TRUE
    /\ hostDefines = TRUE
    /\ hostAtLoad = TRUE
    /\ InitP
    /\ InitT
    /\ callback = 1
    /\ lastTarget = "none"
    /\ lastEvent = "none"
    /\ lastCancelable = FALSE
    /\ calls = <<>>

\* the page when the two modules have just been loaded
InitPage ==
    /\ now = 0
    /\ NoPair
    /\ hostAvailable \in BOOLEAN
    /\ hostDefines \in (IF hostAvailable THEN BOOLEAN ELSE {FALSE})
    /\ hostAtLoad = hostAvailable
    /\ InitSession
    /\ loadListener = ~hostAvailable
    /\ registerCalls = (IF hostAvailable THEN 1 ELSE 0)
    /\ defineCalls = (IF HostUsable THEN 1 ELSE 0)
    /\ pAttrs \in PageElements
    /\ processed = FALSE
    /\ sessions = 0
    /\ delay = Null
    /\ InitTimeout
    /\ tLoadListener = ~hostAvailable
    /\ tDefineCalls = (IF HostUsable THEN 1 ELSE 0)
    /\ tAttrs \in PageElements
    /\ tHoldSetup = FALSE
    /\ tSessions = 0
    /\ tDelay = Null
    /\ callback = 0
    /\ installedBy = 0
    /\ tInstalledBy = 0
    /\ lastTarget = "module"
    /\ lastEvent = "load"
    /\ lastCancelable = FALSE
    /\ calls = (IF hostAvailable THEN RegisterCalls
                ELSE <<"document.addEventListener">>)
            \o (IF hostAvailable THEN tRegisterCalls
                ELSE <<"document.addEventListener">>)

Next ==
    \/ \E id \in frames : Tick(id)
    \/ \E e \in START_EVENTS, c \in BOOLEAN : StartListener(e, c)
    \/ \E e \in CANCEL_EVENTS : CancelListener(e)
    \/ \E e \in START_EVENTS : startHold(e)
    \/ \E t \in timers : TimeoutFires(t)
    \/ \E e \in CANCEL_EVENTS : cancelHold(e)
    \/ Advance

Spec == Init /\ [][Next]_vars

\* The progress-loop element alone, with the browser running every
\* animation-frame callback that stays requested.
NextProgress ==
    \/ \E id \in frames : Tick(id)
    \/ \E e \in START_EVENTS, c \in BOOLEAN : StartListener(e, c)
    \/ \E e \in CANCEL_EVENTS : CancelListener(e)
    \/ Advance

ProgressSpec == Init /\ [][NextProgress]_vars

\* The progress-loop element with a wall clock that can also be set back.
NextSkew ==
    \/ NextProgress
    \/ ClockSetBack

SkewSpec == Init /\ [][NextSkew]_vars

\* The page from the loading of the modules on: registration, processing
\* of the elements, then gestures on the elements that carry listeners.
NextPage ==
    \/ HtmxLoad
    \/ HostArrives
    \/ \E n \in EVENT_NAMES, hasElt \in BOOLEAN : onEvent(n, hasElt)
    \/ \E n \in EVENT_NAMES : tOnEvent(n)
    \/ \E id \in frames : Tick(id)
    \/ \E e \in START_EVENTS, c \in BOOLEAN :
          sessions > 0 /\ StartListener(e, c)
    \/ \E e \in CANCEL_EVENTS : sessions > 0 /\ CancelListener(e)
    \/ \E e \in START_EVENTS : tSessions > 0 /\ startHold(e)
    \/ \E t \in timers : TimeoutFires(t)
    \/ \E e \in CANCEL_EVENTS : tSessions > 0 /\ cancelHold(e)
    \/ Advance

PageSpec == InitPage /\ [][NextPage]_vars

\* The progress-loop element from its processing on, for the declarations
\* of ParseElements, with the clock standing still.
InitParse ==
    /\ now = 0
    /\ NoPair
    /\ hostAvailable = TRUE
    /\ hostDefines = TRUE
    /\ hostAtLoad = TRUE
    /\ InitSession
    /\ loadListener = FALSE
    /\ registerCalls = 1
    /\ defineCalls = 1
    /\ pAttrs \in ParseElements
    /\ processed = FALSE
    /\ sessions = 0
    /\ delay = Null
    /\ InitTimeout
    /\ tLoadListener = FALSE
    /\ tDefineCalls = 1
    /\ tAttrs = [hx |-> CLICK, data |-> NoAttr]
    /\ tHoldSetup = FALSE
    /\ tSessions = 0
    /\ tDelay = Null
    /\ callback = 0
    /\ installedBy = 0
    /\ tInstalledBy = 0
    /\ lastTarget = "module"
    /\ lastEvent = "load"
    /\ lastCancelable = FALSE
    /\ calls = RegisterCalls \o tRegisterCalls

NextParse ==
    \/ \E n \in EVENT_NAMES, hasElt \in BOOLEAN : onEvent(n, hasElt)
    \/ \E a \in Rewrites : SetAttribute(a)
    \/ \E e \in START_EVENTS \cup CANCEL_EVENTS : GestureWithoutListener(e)
    \/ \E id \in frames : Tick(id)
    \/ \E e \in START_EVENTS, c \in BOOLEAN :
          sessions > 0 /\ StartListener(e, c)
    \/ \E e \in CANCEL_EVENTS : sessions > 0 /\ CancelListener(e)

ParseSpec == InitParse /\ [][NextParse]_vars

\* A page with two installed elements, both of the progress-loop module or
\* both of index.ts, element e holding for PairDelay[e] ms.
InitPair ==
    /\ now = 0
    /\ hostAvailable = TRUE
    /\ hostDefines = TRUE
    /\ hostAtLoad = TRUE
    /\ InitP
    /\ pAttrs.hx = HoldDeclaration(MaxDelay)
    /\ InitT
    /\ tAttrs.hx = HoldDeclaration(MaxDelay)
    /\ callback = 1
    /\ lastTarget = "none"
    /\ lastEvent = "none"
    /\ lastCancelable = FALSE
    /\ calls = <<>>
    /\ impl \in {"progress", "timeout"}
    /\ closure = [e \in Elements |->
                     [delay |-> PairDelay[e], startTime |-> Null,
                      animationFrameId |-> Null, holdTriggered |-> FALSE,
                      isActive |-> FALSE]]
    /\ outputs = [e \in Elements |->
                     [cssProgress |-> Unset, dataProgress |-> Unset,
                      hasClass |-> FALSE]]
    /\ pairFrames = {}
    /\ tClosure = [e \in Elements |->
                      [delay |-> PairDelay[e], holdTimeout |-> Null]]
    /\ pairTimers = {}
    /\ lastElt = Null
    /\ holdOn = Null

NextPair ==
    \/ \E f \in pairFrames : TickOf(f)
    \/ \E e \in Elements, n \in START_EVENTS, c \in BOOLEAN :
          StartListenerOf(e, n, c)
    \/ \E e \in Elements, n \in CANCEL_EVENTS : CancelListenerOf(e, n)
    \/ \E e \in Elements, n \in START_EVENTS : startHoldOf(e, n)
    \/ \E e \in Elements, n \in CANCEL_EVENTS : cancelHoldOf(e, n)
    \/ \E t \in pairTimers : TimeoutFiresOf(t)
    \/ now < MaxPairTime /\ Advance

PairSpec == InitPair /\ [][NextPair]_vars

\* The page with a usable host, both modules registered at load and both
\* elements not yet processed; scripts register the extensions again, and
\* the host passes the elements to any of the callbacks it was given.
InitRepeat ==
    /\ now = 0
    /\ NoPair
    /\ hostAvailable = TRUE
    /\ hostDefines = TRUE
    /\ hostAtLoad = TRUE
    /\ InitSession
    /\ loadListener = FALSE
    /\ registerCalls = 1
    /\ defineCalls = 1
    /\ pAttrs \in HoldElements
    /\ processed = FALSE
    /\ sessions = 0
    /\ delay = Null
    /\ InitTimeout
    /\ tLoadListener = FALSE
    /\ tDefineCalls = 1
    /\ tAttrs \in HoldElements
    /\ tHoldSetup = FALSE
    /\ tSessions = 0
    /\ tDelay = Null
    /\ callback = 0
    /\ installedBy = 0
    /\ tInstalledBy = 0
    /\ lastTarget = "module"
    /\ lastEvent = "load"
    /\ lastCancelable = FALSE
    /\ calls = RegisterCalls \o tRegisterCalls

NextRepeat ==
    \/ RegisterAgain
    \/ tRegisterAgain
    \/ \E n \in EVENT_NAMES, hasElt \in BOOLEAN : onEvent(n, hasElt)
    \/ \E n \in EVENT_NAMES : tOnEvent(n)
    \/ \E id \in frames : Tick(id)
    \/ \E e \in START_EVENTS, c \in BOOLEAN :
          sessions > 0 /\ StartListener(e, c)
    \/ \E e \in CANCEL_EVENTS : sessions > 0 /\ CancelListener(e)
    \/ \E e \in START_EVENTS : tSessions > 0 /\ startHold(e)
    \/ \E t \in timers : TimeoutFires(t)
    \/ \E e \in CANCEL_EVENTS : tSessions > 0 /\ cancelHold(e)

RepeatSpec == InitRepeat /\ [][NextRepeat]_vars

LiveSpec == ProgressSpec /\ WF_vars(\E id \in frames : Tick(id))

\* ------------------------------------------------------------ properties
ProgressEvent(evs) == lastTarget' = "progress" /\ lastEvent' \in evs
HoldEmitted == holdsEmitted' = holdsEmitted + 1
THoldEmitted == tEpisodeHolds' = tEpisodeHolds + 1

\* C1: in the progress-loop implementation 'hold' is emitted at most once
\* between an accepted start and the next accepted start, whatever ticks
\* run, so the emissions never outnumber the accepted starts.
C1_AtMostOncePerEpisode ==
    /\ episodeHolds <= 1
    /\ holdsEmitted <= startsAccepted

\* two episodes ran to completion, each emitting once
C1_Witness ==
    /\ startsAccepted = 2
    /\ holdsEmitted = 2
    /\ episodeHolds = 1
    /\ now > lastStart + delay

\* C2: in both implementations, once a cancel gesture has been handled no
\* 'hold' is emitted until the next start: every emission happens in an
\* episode in which no cancel has been handled.
C2_CancelWins ==
    [][/\ HoldEmitted => ~cancelSeen
       /\ THoldEmitted => ~tCancelSeen]_vars

\* both elements were cancelled with the callback pending and the full
\* delay has since passed without an emission
C2_Witness ==
    /\ cancelSeen /\ lastStart # Null /\ episodeHolds = 0
    /\ delay > 0 /\ now >= lastStart + delay /\ frames = {}
    /\ tCancelSeen /\ tLastStart # Null /\ tEpisodeHolds = 0
    /\ tDelay > 0 /\ now >= tLastStart + tDelay /\ timers = {}

\* C3: in both implementations every emission of 'hold' happens at least
\* the delay after the most recent (accepted) start gesture.
C3_NeverEarly ==
    [][/\ HoldEmitted => lastStart # Null /\ now - lastStart >= delay
       /\ THoldEmitted => tLastStart # Null /\ now - tLastStart >= tDelay]_vars

\* a second episode, started after a cancelled one, has just emitted, and
\* so has a press of the timeout element that followed a cancelled press
C3_Witness ==
    /\ startsAccepted = 2 /\ holdsEmitted = 1 /\ episodeHolds = 1
    /\ delay > 0 /\ lastStart > 0
    /\ tEpisodeHolds = 1 /\ tDelay > 0 /\ tLastStart > 0

\* C4: progress-loop implementation, with requested animation frames
\* eventually run: once a start was accepted and the clock has moved on to
\* startTimestamp + delayMs, 'hold' is eventually emitted for that episode
\* unless a cancel gesture is handled first.
C4_EventuallyCompletes ==
    (/\ isActive /\ ~holdTriggered /\ ~cancelSeen
     /\ now > startTime /\ now >= startTime + delay)
        ~> (episodeHolds = 1 \/ cancelSeen)

\* the completing tick has just emitted, no cancel having been handled
C4_Witness ==
    /\ lastTarget = "progress" /\ lastEvent = "frame"
    /\ "trigger" \in Range(calls)
    /\ episodeHolds = 1 /\ ~cancelSeen
    /\ delay > 0 /\ now >= lastStart + delay

\* the session of the progress-loop element and what it shows
session == <<startTime, animationFrameId, holdTriggered, isActive>>
element == <<cssProgress, dataProgress, hasClass>>

\* C5: progress-loop implementation: a start gesture handled while the
\* session is Active changes nothing: no host or DOM call (no
\* preventDefault, no addClass, no progress write, no requestAnimationFrame),
\* no change of the session, of the element or of the pending frames.
C5_NoReentrantStart ==
    [][(isActive /\ ProgressEvent(START_EVENTS))
        => /\ calls' = <<>>
           /\ UNCHANGED <<session, element, frames, startsAccepted>>]_vars

\* a start gesture has just been handled while Active
C5_Witness ==
    /\ lastTarget = "progress" /\ lastEvent \in START_EVENTS
    /\ calls = <<>>
    /\ isActive /\ frames # {}

\* C6: progress-loop implementation: a cancel gesture handled while Active,
\* before or after completion, leaves no animation frame pending, clears
\* the handle, removes the active class, writes "0" to both progress
\* outputs, leaves the session Idle and emits nothing.
C6_CancelResets ==
    [][(isActive /\ ProgressEvent(CANCEL_EVENTS))
        => /\ frames' = {} /\ animationFrameId' = Null
           /\ ~hasClass'
           /\ cssProgress' = Zero /\ dataProgress' = Zero
           /\ ~isActive' /\ startTime' = Null /\ ~holdTriggered'
           /\ "removeClass" \in Range(calls')
           /\ UNCHANGED <<holdsEmitted, episodeHolds>>]_vars

\* touchcancel has just cancelled a hold whose progress had been written
\* and whose next frame was pending
C6_Witness ==
    /\ lastTarget = "progress" /\ lastEvent = "touchcancel"
    /\ calls = <<"cancelAnimationFrame", "removeClass", "setProperty",
                 "dataset">>
    /\ episodeHolds = 0 /\ now > lastStart
    /\ cssProgress = Zero /\ ~hasClass

\* C7 as stated, for a session with a positive delay: after 'hold' has been
\* emitted the next start gesture is accepted although no cancel gesture
\* was handled in between.
C7_StartAcceptedAfterCompletion ==
    [][(/\ delay > 0 /\ episodeHolds = 1 /\ ~cancelSeen
        /\ ProgressEvent(START_EVENTS))
        => /\ startTime' = now
           /\ animationFrameId' \in frames'
           /\ startsAccepted' = startsAccepted + 1]_vars

\* C7 as amended: after 'hold' has been emitted the session stays Active
\* until a cancel gesture is handled: a start gesture before that cancel is
\* ignored, and the first start gesture after it is accepted (it records a
\* new startTimestamp and schedules a tick).
C7_StartAcceptedAfterCancel ==
    [][(episodeHolds = 1 /\ ProgressEvent(START_EVENTS))
        => IF cancelSeen
           THEN /\ startTime' = now
                /\ animationFrameId' \in frames'
                /\ startsAccepted' = startsAccepted + 1
           ELSE /\ calls' = <<>>
                /\ UNCHANGED <<session, element, frames,
                               startsAccepted>>]_vars

\* a start has just been accepted after a completed and cancelled episode
C7_Witness ==
    /\ lastTarget = "progress" /\ lastEvent \in START_EVENTS
    /\ holdsEmitted = 1 /\ startsAccepted = 2 /\ episodeHolds = 0
    /\ startTime = now /\ animationFrameId \in frames

\* C8: progress-loop implementation: from the emission of 'hold' until the
\* next cancel gesture the element keeps the active class and its progress
\* outputs read "1" and "100"; the class is removed by a cancel gesture
\* only.
C8_CompletionKeepsMarker ==
    /\ [](episodeHolds >= 1 /\ ~cancelSeen
            => /\ hasClass
               /\ cssProgress = One
               /\ dataProgress = Frac(100, 1))
    /\ [][(hasClass /\ ~hasClass') => ProgressEvent(CANCEL_EVENTS)]_vars

\* completed and not yet cancelled, a later start gesture having been
\* ignored
C8_Witness ==
    /\ episodeHolds = 1 /\ ~cancelSeen
    /\ hasClass /\ dataProgress = Frac(100, 1)
    /\ lastTarget = "progress" /\ lastEvent \in START_EVENTS

\* C9: progress-loop implementation: while the session is Idle no
\* animation-frame callback is pending and animationFrameId is null.
C9_NoCallbackWhileIdle ==
    ~isActive => frames = {} /\ animationFrameId = Null

\* Idle again after a cancel that cancelled a pending frame
C9_Witness ==
    /\ ~isActive /\ startsAccepted >= 1
    /\ lastTarget = "progress" /\ lastEvent \in CANCEL_EVENTS
    /\ "cancelAnimationFrame" \in Range(calls)

\* C10: progress-loop implementation: a cancel gesture handled while the
\* session is not Active makes no host or DOM call and changes neither the
\* session nor the element nor the pending frames.
C10_CancelWhileIdleNoOp ==
    [][(~isActive /\ ProgressEvent(CANCEL_EVENTS))
        => /\ calls' = <<>>
           /\ UNCHANGED <<session, element, frames, holdsEmitted,
                          episodeHolds, startsAccepted>>]_vars

\* a cancel gesture has just been handled while Idle, before any start
C10_Witness ==
    /\ lastTarget = "progress" /\ lastEvent \in CANCEL_EVENTS
    /\ calls = <<>>
    /\ ~isActive /\ startsAccepted = 0 /\ cssProgress = Unset

\* the number of entries of q equal to c
Count(q, c) == Cardinality({i \in DOMAIN q : q[i] = c})
ExtensionEvent(target) == lastTarget' = target /\ lastEvent' = PROCESS_NODE

\* C11: in both implementations, processing a hold-eligible element again
\* installs nothing: each element carries at most one session and one set
\* of listeners, a repeated node-processed event attaches no listener and
\* leaves the session alone, and one start gesture makes one addClass call
\* and leaves one frame (one timer) scheduled.
C11_IdempotentInstallation ==
    /\ [](/\ sessions = (IF processed THEN 1 ELSE 0)
          /\ tSessions = (IF tHoldSetup THEN 1 ELSE 0))
    /\ [][/\ (processed /\ ExtensionEvent("extension"))
             => /\ "addEventListener" \notin Range(calls')
                /\ UNCHANGED <<pvars, processed, sessions>>
          /\ (tHoldSetup /\ ExtensionEvent("timeout extension"))
             => /\ "addEventListener" \notin Range(calls')
                /\ UNCHANGED <<tvars, tHoldSetup, tSessions>>
          /\ (~isActive /\ ProgressEvent(START_EVENTS))
             => /\ Count(calls', "addClass") = 1
                /\ Count(calls', "requestAnimationFrame") = 1
                /\ Cardinality(frames') = 1
          /\ (lastTarget' = "timeout" /\ lastEvent' \in START_EVENTS)
             => /\ Count(calls', "setTimeout") = 1
                /\ Cardinality(timers') = 1]_vars

\* both elements were processed again after a hold had started on each,
\* the timeout element last
C11_Witness ==
    /\ lastTarget = "timeout extension" /\ lastEvent = PROCESS_NODE
    /\ calls = <<"return undefined">>
    /\ processed /\ sessions = 1 /\ isActive /\ Cardinality(frames) = 1
    /\ tHoldSetup /\ tSessions = 1 /\ Cardinality(timers) = 1

\* C12: progress-loop implementation: no animation frame requested before
\* a cancel gesture is still pending after that cancel has been handled, so
\* none can run later, whether or not a new start follows; and while the
\* session is Idle both progress outputs are unset or "0".
C12_NoStaleTick ==
    /\ staleFrames = {}
    /\ ~isActive => /\ frames = {}
                    /\ cssProgress \in {Unset, Zero}
                    /\ dataProgress \in {Unset, Zero}

\* a tick of the second episode has run in the millisecond of its start,
\* the first episode having been cancelled with progress written
C12_Witness ==
    /\ startsAccepted = 2 /\ holdsEmitted = 0 /\ isActive
    /\ lastTarget = "progress" /\ lastEvent = "frame"
    /\ now = lastStart /\ now > 0 /\ delay > 0
    /\ cssProgress = Zero /\ frames = {animationFrameId}

\* a written value lies between lo and hi
Within(p, lo, hi) == p.k = "num" /\ lo * p.d <= p.n /\ p.n <= hi * p.d
\* p <= q for two written values
Leq(p, q) == p.k = "num" /\ q.k = "num" /\ p.n * q.d <= q.n * p.d
TickWrites == lastTarget' = "progress" /\ lastEvent' = "frame" /\ startTime # Null

\* C13: progress-loop implementation: every value written to the
\* normalized progress output lies in [0,1] and every value written to the
\* percentage output lies in 0..100, for any clock reading at the tick,
\* one earlier than the start timestamp included (stated for a positive
\* delay).
C13_ProgressClamped ==
    delay > 0 => /\ cssProgress = Unset \/ Within(cssProgress, 0, 1)
                 /\ dataProgress = Unset \/ Within(dataProgress, 0, 100)

\* C14: progress-loop implementation: within one Active episode with a
\* non-decreasing clock, a tick never writes a progress value below the
\* one written before it, and a tick at elapsed time >= delay writes
\* exactly 1 (percentage exactly 100).
C14_MonotonicProgress ==
    [][TickWrites
       => /\ Leq(cssProgress, cssProgress')
          /\ Leq(dataProgress, dataProgress')
          /\ now - startTime >= delay
             => cssProgress' = One /\ dataProgress' = Frac(100, 1)]_vars

\* Math.round(100 * p) stated as the integer nearest to 100 * p, the upper
\* one when two are as near
NearestPercent(p) ==
    IF p.k = "num"
    THEN Frac(CHOOSE v \in -100..100 :
                  /\ 2 * v * p.d <= 200 * p.n + p.d
                  /\ 200 * p.n + p.d < 2 * (v + 1) * p.d, 1)
    ELSE p

\* C15: progress-loop implementation: in every state between handlers
\* the two progress outputs are both unset, or data-hold-progress is
\* round(100 * --hold-progress).
C15_OutputsConsistent ==
    IF cssProgress = Unset
    THEN dataProgress = Unset
    ELSE dataProgress # Unset /\ dataProgress = NearestPercent(cssProgress)

\* a tick has written one half and 50; after a cancel has written 0 and 0
\* in an earlier episode
C15_Witness ==
    /\ lastTarget = "progress" /\ lastEvent = "frame"
    /\ startsAccepted = 2
    /\ cssProgress = Frac(1, 2) /\ dataProgress = Frac(50, 1)

\* C16: progress-loop implementation: a start gesture accepted from Idle
\* calls preventDefault if and only if the event is cancelable, adds the
\* active class, records startTime = now, writes "0" to both progress
\* outputs and schedules exactly one animation-frame tick.
C16_StartEntryEffects ==
    [][(~isActive /\ ProgressEvent(START_EVENTS))
       => /\ Count(calls', "preventDefault")
                = (IF lastCancelable' THEN 1 ELSE 0)
          /\ isActive'
          /\ hasClass' /\ Count(calls', "addClass") = 1
          /\ startTime' = now
          /\ cssProgress' = Zero /\ dataProgress' = Zero
          /\ Count(calls', "requestAnimationFrame") = 1
          /\ animationFrameId' \notin frames
          /\ frames' = frames \cup {animationFrameId'}]_vars

\* a start on a non-cancelable touchstart, accepted after an earlier
\* episode, with the clock past zero
C16_Witness ==
    /\ lastTarget = "progress" /\ lastEvent = "touchstart"
    /\ ~lastCancelable
    /\ "preventDefault" \notin Range(calls)
    /\ "requestAnimationFrame" \in Range(calls)
    /\ startsAccepted = 2 /\ startTime = now /\ now > 0
    /\ hasClass /\ cssProgress = Zero

\* what the callback returned: the last entry of its calls
Returned(q) == IF q = <<>> THEN "nothing" ELSE q[Len(q)]

\* C17: progress-loop implementation: the extension's event callback
\* returns true for every event name and every element: another event
\* than htmx:afterProcessNode, a missing element, a non-eligible element,
\* a newly installed one and an already-installed one.
C17_CallbackReturnsTrue ==
    [][lastTarget' = "extension" => Returned(calls') = "return true"]_vars

\* the callback has returned true for the node-processed event of an
\* element that was installed before and has a hold running
C17_Witness ==
    /\ lastTarget = "extension" /\ lastEvent = PROCESS_NODE
    /\ calls = <<GET_HX, "return true">>
    /\ HOLD_TRIGGER_PATTERN(pAttrs.hx)
    /\ processed /\ sessions = 1 /\ isActive

\* C18: src/src/index.ts: the extension's event callback always returns a
\* truthy continuation value, also when htmx:afterProcessNode is delivered
\* again for an element whose session is already installed.
C18_TimeoutCallbackReturnsTrue ==
    [][lastTarget' = "timeout extension"
       => Returned(calls') = "return true"]_vars

\* C19: src/src/index.ts: a mousedown / touchstart arriving while the hold
\* timer is pending is ignored: the pending timer and its due time stay,
\* no other timer is scheduled and the gesture's default action is not
\* suppressed.
C19_StartWhilePendingIgnored ==
    [][(/\ holdTimeout # Null
        /\ lastTarget' = "timeout" /\ lastEvent' \in START_EVENTS)
       => /\ UNCHANGED <<timers, holdTimeout>>
          /\ "setTimeout" \notin Range(calls')
          /\ "preventDefault" \notin Range(calls')]_vars

\* C20: progress-loop implementation: with the host unavailable when the
\* module loads, nothing is registered at load; the first htmx:load
\* causes exactly one call of registerHoldExtension and later ones cause
\* none, so auto-registration calls defineExtension at most once.
C20_DeferredRegistrationOnce ==
    /\ [](/\ registerCalls <= 1
          /\ defineCalls <= registerCalls
          /\ ~hostAtLoad => IF loadListener
                            THEN registerCalls = 0 /\ defineCalls = 0
                            ELSE registerCalls = 1)
    /\ [][lastEvent' = "htmx:load"
          => /\ ~loadListener'
             /\ registerCalls' = registerCalls
                               + (IF loadListener THEN 1 ELSE 0)
             /\ defineCalls' = defineCalls
                             + (IF loadListener /\ HostUsable
                                THEN 1 ELSE 0)]_vars

\* the module loaded without the host; a second htmx:load has been
\* dispatched, index.ts has registered twice and this module once
C20_Witness ==
    /\ ~hostAtLoad /\ lastEvent = "htmx:load"
    /\ ~loadListener /\ registerCalls = 1 /\ defineCalls = 1
    /\ tDefineCalls = 2 /\ calls = <<"defineExtension">>

\* the diagnostics of a registration that found the host unusable: each
\* module that ran registerHoldExtension has logged, nothing was defined,
\* no gesture listener was attached and nothing was thrown
InertRegistration(q, ranP, ranT) ==
    /\ ranP => "console.error" \in Range(q)
    /\ ranT => "console.warn" \in Range(q)
    /\ "defineExtension" \notin Range(q)
    /\ "addEventListener" \notin Range(q)
    /\ "throw TypeError" \notin Range(q)

\* C21: when registerHoldExtension runs and the host object, or its
\* defineExtension function, is missing, it logs a diagnostic and returns
\* without calling defineExtension, without attaching a listener and
\* without raising an exception (at module load and on htmx:load, in both
\* modules); and no session is Active while the extension is unregistered.
C21_HostUnavailableInert ==
    /\ (hostAvailable /\ ~hostDefines)
       => InertRegistration(calls, TRUE, TRUE)
    /\ [][(lastEvent' = "htmx:load" /\ ~HostUsable)
          => /\ InertRegistration(calls', loadListener, tLoadListener)
             /\ UNCHANGED <<defineCalls, tDefineCalls, pvars, tvars>>]_vars
    /\ [](/\ defineCalls = 0
             => sessions = 0 /\ ~isActive /\ frames = {} /\ ~hasClass
          /\ tDefineCalls = 0
             => tSessions = 0 /\ holdTimeout = Null /\ timers = {})

\* the step in which onEvent creates the session of the element
Installs == lastTarget' = "extension" /\ sessions' = sessions + 1

C23_UnknownUnitDefaults ==
    [][Installs
       => \A c \in UnknownUnitForms :
             pAttrs = [hx |-> Build(c), data |-> NoAttr]
             => delay' = 500]_vars

\* C24: progress-loop implementation: the delay of every session, by
\* which a tick divides the elapsed time, is greater than zero, whatever
\* declaration the parser accepted (`hold delay:0`, `hold delay:0ms`,
\* `hold delay:0.0s` included).
C24_DelayPositive ==
    sessions > 0 => delay > 0

\* C25: progress-loop implementation: for an element whose trigger
\* declaration lacks the lowercase word hold (`click`, `Hold delay:2ms`,
\* `threshold delay:2ms`, `hold_delay:2ms`, an empty or a missing
\* attribute), processing installs no session and attaches no listener,
\* and no later press or release changes the class, writes progress,
\* schedules a callback or emits 'hold'.
C25_NotEligibleNoEffect ==
    [][(/\ pAttrs.data = NoAttr
        /\ pAttrs.hx \in NotEligible \cup {NoAttr}
        /\ sessions = 0)
       => /\ UNCHANGED <<pvars, processed, sessions>>
          /\ Range(calls') \subseteq {GET_HX, GET_DATA, "return true"}]_vars

\* `threshold delay:2ms` has been processed, with the element given, and
\* nothing was installed
C25_Witness ==
    /\ pAttrs = [hx |-> <<"t", "h", "r", "e", "s">> \o HoldDeclaration(2),
                 data |-> NoAttr]
    /\ lastTarget = "extension" /\ lastEvent = PROCESS_NODE
    /\ calls = <<GET_HX, "return true">>
    /\ sessions = 0 /\ ~processed /\ ~hasClass /\ frames = {}
    /\ cssProgress = Unset

\* C27: progress-loop implementation: once the session exists its delay
\* never changes and the session stays: rewriting or removing the trigger
\* attribute, and processing the element again with another declaration,
\* alter neither.
C27_ConfigurationFrozen ==
    [][processed => /\ delay' = delay
                    /\ processed' /\ sessions' = sessions]_vars

\* the session was created with 3 ms, the attribute now reads
\* `hold delay:1ms`, and a second press has been accepted
C27_Witness ==
    /\ processed /\ sessions = 1 /\ delay = 3
    /\ pAttrs.hx = HoldDeclaration(1)
    /\ lastTarget = "progress" /\ lastEvent \in START_EVENTS
    /\ isActive /\ startsAccepted = 2

\* the declaration an element shows when hx-trigger goes first
Preferred(a) == IF a.hx # NoAttr THEN a.hx ELSE a.data
HasHoldWord(t) == t # NoAttr /\ HOLD_TRIGGER_PATTERN(t)

\* C28: progress-loop implementation: when the element is processed for
\* the first time, hx-trigger alone decides eligibility and delay if the
\* element carries it, and data-hx-trigger is read only when hx-trigger is
\* absent.
C28_AttributePreference ==
    [][(lastTarget' = "extension" /\ GET_HX \in Range(calls') /\ ~processed)
       => /\ GET_DATA \in Range(calls') <=> pAttrs.hx = NoAttr
          /\ sessions' = (IF HasHoldWord(Preferred(pAttrs)) THEN 1 ELSE 0)
          /\ sessions' = 1
             => delay' = InstalledDelay(Preferred(pAttrs)).n]_vars

\* hx-trigger `hold delay:2ms` beside data-hx-trigger `hold delay:3ms`:
\* installed with 2 ms without a read of data-hx-trigger
C28_Witness ==
    /\ pAttrs = [hx |-> HoldDeclaration(2), data |-> HoldDeclaration(3)]
    /\ lastTarget = "extension"
    /\ calls = <<GET_HX>> \o Listeners \o <<"return true">>
    /\ sessions = 1 /\ delay = 2

\* C29: progress-loop implementation: in every state between handlers
\* startTime is null if and only if the session is not Active.
C29_StartTimeWhileActive ==
    (startTime = Null) <=> ~isActive

\* the hold of a second episode has completed and then a release was
\* handled: the session is Idle again and startTime is null
C29_Witness ==
    /\ lastTarget = "progress" /\ lastEvent \in CANCEL_EVENTS
    /\ startsAccepted = 2 /\ episodeHolds = 1
    /\ ~isActive /\ startTime = Null /\ lastStart # Null

\* C30: progress-loop implementation: from the emission of 'hold' until
\* the next accepted start no animation-frame callback of the session is
\* pending, the stored handle is null, and none is requested.
C30_TickChainStops ==
    /\ [](episodeHolds >= 1 => frames = {} /\ animationFrameId = Null)
    /\ [][(episodeHolds >= 1 /\ episodeHolds' >= 1)
          => "requestAnimationFrame" \notin Range(calls')]_vars

\* after the emission the clock has moved on and a further press was
\* ignored, still before any release
C30_Witness ==
    /\ episodeHolds = 1 /\ holdTriggered /\ isActive /\ ~cancelSeen
    /\ lastTarget = "progress" /\ lastEvent \in START_EVENTS
    /\ now > lastStart + delay /\ delay > 0
    /\ frames = {} /\ animationFrameId = Null

\* what the browser still holds for element e
PendingOf(pending, e) == {f \in pending : f.elt = e}

\* C26: with two installed elements of one implementation, a start, a
\* cancel, a tick or a timer event of one element leaves the other
\* element's session state, outputs and pending callbacks unchanged, and
\* 'hold' is triggered only on the element whose handler ran, its own hold
\* having lasted the element's delay.
C26_SessionsIndependent ==
    [][lastTarget' = "pair"
       => /\ \A o \in Elements \ {lastElt'} :
                /\ closure'[o] = closure[o]
                /\ outputs'[o] = outputs[o]
                /\ tClosure'[o] = tClosure[o]
                /\ PendingOf(pairFrames', o) = PendingOf(pairFrames, o)
                /\ PendingOf(pairTimers', o) = PendingOf(pairTimers, o)
          /\ holdOn' # Null
             => /\ holdOn' = lastElt'
                /\ IF impl = "progress"
                   THEN /\ closure[holdOn'].startTime # Null
                        /\ now - closure[holdOn'].startTime
                              >= closure[holdOn'].delay
                   ELSE \E t \in PendingOf(pairTimers, holdOn') :
                           /\ t.id = tClosure[holdOn'].holdTimeout
                           /\ t.due <= now]_vars

\* the hold of element 1 has just completed while element 2, pressed at
\* the same time, is half way with its callback pending
C26_Witness ==
    /\ impl = "progress" /\ lastElt = 1 /\ holdOn = 1
    /\ closure[1].holdTriggered /\ PendingOf(pairFrames, 1) = {}
    /\ closure[2].isActive /\ ~closure[2].holdTriggered
    /\ closure[2].startTime = closure[1].startTime
    /\ outputs[2].cssProgress = Frac(1, 2)
    /\ PendingOf(pairFrames, 2) # {}

\* C31: progress-loop implementation: at most one animation-frame
\* callback of the element is pending in every state, and while the
\* session is Active with completion not yet fired exactly one is, the
\* one whose handle the session stores.
C31_SingleTickChain ==
    /\ Cardinality(frames) <= 1
    /\ (isActive /\ ~holdTriggered)
       => animationFrameId # Null /\ frames = {animationFrameId}

\* in a second episode a tick has run half way and has requested the next
C31_Witness ==
    /\ lastTarget = "progress" /\ lastEvent = "frame"
    /\ startsAccepted = 2 /\ isActive /\ ~holdTriggered
    /\ cssProgress = Frac(1, 2)
    /\ "requestAnimationFrame" \in Range(calls)
    /\ frames = {animationFrameId}

\* C32: progress-loop implementation: addClass is called only on an
\* element without the active class and removeClass only on one with it,
\* never both in one handler, so the calls alternate starting with
\* addClass, and the element carries the class exactly while the session
\* is Active.
C32_MarkerTracksState ==
    /\ [](hasClass <=> isActive)
    /\ [][/\ "addClass" \in Range(calls')
             => /\ ~hasClass /\ hasClass'
                /\ "removeClass" \notin Range(calls')
          /\ "removeClass" \in Range(calls') => hasClass /\ ~hasClass'
          /\ hasClass' # hasClass
             => Count(calls', "addClass") + Count(calls', "removeClass")
                    = 1]_vars

\* the class was added, removed and added again, and the hold of the
\* second episode has completed with the class still on
C32_Witness ==
    /\ startsAccepted = 2 /\ holdsEmitted = 1 /\ holdTriggered
    /\ hasClass /\ isActive /\ lastEvent = "frame"

\* C33: progress-loop implementation: whenever holdTriggered is true the
\* session is Active, no tick is pending and the outputs read "1" and
\* "100"; every accepted start and every effective cancel leaves the flag
\* false.
C33_CompletionFlag ==
    /\ [](holdTriggered
          => /\ isActive /\ frames = {} /\ animationFrameId = Null
             /\ cssProgress = One /\ dataProgress = Frac(100, 1))
    /\ [][/\ (~isActive /\ ProgressEvent(START_EVENTS)) => ~holdTriggered'
          /\ (isActive /\ ProgressEvent(CANCEL_EVENTS))
             => ~holdTriggered']_vars

\* a tick later than the delay has completed the hold: the flag is set
\* and the outputs read 1 and 100
C33_Witness ==
    /\ holdTriggered /\ lastTarget = "progress" /\ lastEvent = "frame"
    /\ delay > 0 /\ now > lastStart + delay
    /\ cssProgress = One /\ dataProgress = Frac(100, 1)

\* C34: src/src/index.ts: holdTimeout is non-null exactly when one
\* timeout of the element is pending, the one it names; two timeouts of
\* the element are never pending together, a start clears a pending one
\* before it schedules, and no press emits 'hold' twice.
C34_TimerHandle ==
    /\ [](/\ Cardinality(timers) <= 1
          /\ IF holdTimeout = Null THEN timers = {}
             ELSE \E t \in timers : t.id = holdTimeout
          /\ tEpisodeHolds <= 1)
    /\ [][(holdTimeout # Null
           /\ lastTarget' = "timeout" /\ lastEvent' \in START_EVENTS)
          => /\ calls' = <<"preventDefault", "clearTimeout", "setTimeout">>
             /\ \A t \in timers : t \notin timers' \/ t.due = now + tDelay
         ]_vars

\* a press arrived while the timer of an earlier press was pending: that
\* timer was cleared and one new timer is pending
C34_Witness ==
    /\ lastTarget = "timeout" /\ lastEvent \in START_EVENTS
    /\ "clearTimeout" \in Range(calls)
    /\ tLastStart > 0 /\ tDelay > 0
    /\ Cardinality(timers) = 1
    /\ \E t \in timers : t.id = holdTimeout /\ t.due = tLastStart + tDelay

\* C35: with registerHoldExtension called more than once, so that the
\* host holds several extension callbacks of a module, each element
\* carries at most one session whichever callbacks process it and however
\* often: the callback that meets the element first attaches the six
\* listeners, every later node-processed event, through the same or
\* another callback, attaches none and leaves the session alone, and one
\* start gesture still makes one addClass call and schedules one frame
\* (one timer).
C35_RepeatedRegistration ==
    /\ [](/\ sessions = (IF installedBy = 0 THEN 0 ELSE 1)
          /\ tSessions = (IF tInstalledBy = 0 THEN 0 ELSE 1)
          /\ installedBy <= defineCalls
          /\ tInstalledBy <= tDefineCalls)
    /\ [][/\ ExtensionEvent("extension")
             => IF installedBy = 0
                THEN Count(calls', "addEventListener") \in {0, 6}
                ELSE /\ "addEventListener" \notin Range(calls')
                     /\ UNCHANGED <<pvars, processed, sessions,
                                    installedBy>>
          /\ ExtensionEvent("timeout extension")
             => IF tInstalledBy = 0
                THEN Count(calls', "addEventListener") \in {0, 6}
                ELSE /\ "addEventListener" \notin Range(calls')
                     /\ UNCHANGED <<tvars, tHoldSetup, tSessions,
                                    tInstalledBy>>
          /\ (~isActive /\ ProgressEvent(START_EVENTS))
             => /\ Count(calls', "addClass") = 1
                /\ Cardinality(frames') = 1
          /\ (lastTarget' = "timeout" /\ lastEvent' \in START_EVENTS)
             => Cardinality(timers') = 1]_vars

\* two callbacks of each module exist; the timeout element was installed
\* by the second, the progress-loop element by the first, and during a
\* hold it has just been processed again by the second, which attached
\* nothing
C35_Witness ==
    /\ defineCalls = 2 /\ tDefineCalls = 2
    /\ lastTarget = "extension" /\ lastEvent = PROCESS_NODE
    /\ callback = 2 /\ installedBy = 1 /\ tInstalledBy = 2
    /\ "addEventListener" \notin Range(calls)
    /\ sessions = 1 /\ tSessions = 1
    /\ isActive /\ Cardinality(frames) = 1
====
